---- MODULE Spec2Model ----
(***************************************************************************)
(* Model of the model-discovery service of llm-digest                      *)
(* (src/llm_discovery.py, class LLMModelDiscovery): the catalog parser,    *)
(* the prioritizer, the filter and the time-bounded discovery cache.       *)
(* Python str values are TLA+ strings and Python lists are sequences.  An  *)
(* Optional[str] is a string or NoneVal; an Optional list or object is     *)
(* None or Some(value).                                                    *)
(***************************************************************************)
EXTENDS Integers, Sequences, FiniteSets, TLC

\* None where a str is expected
NoneVal == "<None>"

\* None and a present value where a list or an object is expected
None == <<>>

Some(value) == <<value>>

ValueOf(optional) == optional[1]

(***************************************************************************)
(* Python str primitives used by the service.                              *)
(***************************************************************************)

\* s[i] as a one-character string
CharAt(s, i) == SubSeq(s, i, i)

\* characters str.strip() removes
Whitespace == {" ", "\t", "\n", "\r"}

\* k in s
Contains(s, k) ==
    \E i \in 1..(Len(s) - Len(k) + 1) : SubSeq(s, i, i + Len(k) - 1) = k

\* s.find(k) + 1, 0 when k does not occur
Find(s, k) ==
    LET hits == {i \in 1..(Len(s) - Len(k) + 1) : SubSeq(s, i, i + Len(k) - 1) = k}
    IN  IF hits = {} THEN 0 ELSE CHOOSE i \in hits : \A j \in hits : i <= j

StartsWith(s, k) == Len(k) <= Len(s) /\ SubSeq(s, 1, Len(k)) = k

EndsWith(s, k) == Len(k) <= Len(s) /\ SubSeq(s, Len(s) - Len(k) + 1, Len(s)) = k

\* s.strip()
Strip(s) ==
    LET keep == {i \in 1..Len(s) : CharAt(s, i) \notin Whitespace}
    IN  IF keep = {} THEN ""
        ELSE LET lo == CHOOSE i \in keep : \A j \in keep : i <= j
                 hi == CHOOSE i \in keep : \A j \in keep : i >= j
             IN  SubSeq(s, lo, hi)

RECURSIVE Split(_, _)
\* s.split(sep): always at least one part
Split(s, sep) ==
    LET p == Find(s, sep)
    IN  IF p = 0 THEN <<s>>
        ELSE <<SubSeq(s, 1, p - 1)>> \o Split(SubSeq(s, p + Len(sep), Len(s)), sep)

\* s.split(sep, 1): at most two parts
SplitOnce(s, sep) ==
    LET p == Find(s, sep)
    IN  IF p = 0 THEN <<s>>
        ELSE <<SubSeq(s, 1, p - 1), SubSeq(s, p + Len(sep), Len(s))>>

UpperCase == <<"A","B","C","D","E","F","G","H","I","J","K","L","M",
               "N","O","P","Q","R","S","T","U","V","W","X","Y","Z">>
LowerCase == <<"a","b","c","d","e","f","g","h","i","j","k","l","m",
               "n","o","p","q","r","s","t","u","v","w","x","y","z">>

LowerChar(c) ==
    IF \E i \in 1..26 : UpperCase[i] = c
    THEN LowerCase[CHOOSE i \in 1..26 : UpperCase[i] = c]
    ELSE c

RECURSIVE Lower(_)
\* s.lower()
Lower(s) == IF s = "" THEN "" ELSE LowerChar(CharAt(s, 1)) \o Lower(Tail(s))

\* the regex class \w
WordChars ==
    {UpperCase[i] : i \in 1..26} \cup {LowerCase[i] : i \in 1..26}
    \cup {"0","1","2","3","4","5","6","7","8","9","_"}

\* the regex assertion \b between s[i-1] and s[i] (i in 1..Len(s)+1)
WordBoundary(s, i) ==
    LET before == i > 1 /\ CharAt(s, i - 1) \in WordChars
        after  == i <= Len(s) /\ CharAt(s, i) \in WordChars
    IN  before # after

\* re.search(r"\b" + kw + r"\b", s) is not None
SearchWord(s, kw) ==
    \E i \in 1..(Len(s) - Len(kw) + 1) :
        /\ SubSeq(s, i, i + Len(kw) - 1) = kw
        /\ WordBoundary(s, i)
        /\ WordBoundary(s, i + Len(kw))

\* x in lst
InList(x, lst) == \E i \in 1..Len(lst) : lst[i] = x

\* the items of lst, as a set
Elements(lst) == {lst[i] : i \in 1..Len(lst)}

\* list.sort(key=...) / sorted(lst, key=...): ascending by key, stable;
\* keys[i] is the key of lst[i]
StableSortBy(lst, keys) ==
    LET n == Len(lst)
        Rank(i) == Cardinality({j \in 1..n :
                        \/ keys[j] < keys[i]
                        \/ keys[j] = keys[i] /\ j <= i})
    IN  [p \in 1..n |-> lst[CHOOSE i \in 1..n : Rank(i) = p]]

\* lst[:n]
Take(lst, n) == SubSeq(lst, 1, IF Len(lst) < n THEN Len(lst) ELSE n)

(***************************************************************************)
(* LLMModelDiscovery.__init__: the static tables.                          *)
(***************************************************************************)

LLMModel(name, provider, aliases, is_chat, is_experimental, priority) ==
    [name |-> name, provider |-> provider, aliases |-> aliases,
     is_chat |-> is_chat, is_experimental |-> is_experimental,
     priority |-> priority]

fallback_models == <<
    LLMModel("llama3.2", "Ollama", <<"llama3.2-3b", "llama3.2:latest">>, TRUE, FALSE, 1),
    LLMModel("llama3.1", "Ollama", <<"llama3.1:latest">>, TRUE, FALSE, 2),
    LLMModel("mistral", "Ollama", <<"mistral:latest">>, TRUE, FALSE, 3),
    LLMModel("codellama", "Ollama", <<"codellama:latest">>, TRUE, FALSE, 4),
    LLMModel("gpt-4o", "OpenAI Chat", <<"4o">>, TRUE, FALSE, 10),
    LLMModel("gpt-4o-mini", "OpenAI Chat", <<"4o-mini">>, TRUE, FALSE, 11),
    LLMModel("gpt-4", "OpenAI Chat", <<"4", "gpt4">>, TRUE, FALSE, 12),
    LLMModel("gpt-3.5-turbo", "OpenAI Chat", <<"3.5", "chatgpt">>, TRUE, FALSE, 13) >>

\* the dict priority_rules, in insertion order
priority_rules == <<
    [k |-> "Ollama", v |-> 5],
    [k |-> "OpenAI Chat", v |-> 10],
    [k |-> "GeminiPro", v |-> 20],
    [k |-> "OpenAI Completion", v |-> 30],
    [k |-> "chat_bonus", v |-> -5],
    [k |-> "experimental_penalty", v |-> 50],
    [k |-> "llama3.2", v |-> -15],
    [k |-> "llama3.1", v |-> -12],
    [k |-> "mistral", v |-> -10],
    [k |-> "codellama", v |-> -8],
    [k |-> "llama2", v |-> -6],
    [k |-> "gpt-4o", v |-> -10],
    [k |-> "gpt-4o-mini", v |-> -8],
    [k |-> "gpt-4", v |-> -6],
    [k |-> "gpt-3.5-turbo", v |-> -4],
    [k |-> "gemini-2.0-flash", v |-> -3],
    [k |-> "gemini-1.5-pro-latest", v |-> -2] >>

\* services.LLMModelDiscovery.__init__: fallback_models of the copy in
\* services.py
services_fallback_models == <<
    LLMModel("gpt-4o", "OpenAI Chat", <<"4o">>, TRUE, FALSE, 1),
    LLMModel("gpt-4o-mini", "OpenAI Chat", <<"4o-mini">>, TRUE, FALSE, 2),
    LLMModel("gpt-4", "OpenAI Chat", <<"4", "gpt4">>, TRUE, FALSE, 3),
    LLMModel("gpt-3.5-turbo", "OpenAI Chat", <<"3.5", "chatgpt">>, TRUE, FALSE, 4) >>

\* the dict priority_rules of the copy in services.py, in insertion order
services_priority_rules == <<
    [k |-> "OpenAI Chat", v |-> 10],
    [k |-> "GeminiPro", v |-> 20],
    [k |-> "OpenAI Completion", v |-> 30],
    [k |-> "chat_bonus", v |-> -5],
    [k |-> "experimental_penalty", v |-> 50],
    [k |-> "gpt-4o", v |-> -10],
    [k |-> "gpt-4o-mini", v |-> -8],
    [k |-> "gpt-4", v |-> -6],
    [k |-> "gpt-3.5-turbo", v |-> -4],
    [k |-> "gemini-2.0-flash", v |-> -3],
    [k |-> "gemini-1.5-pro-latest", v |-> -2] >>

\* rules.get(key, default) for a table of rules in insertion order
RulesGetIn(rules, key, default) ==
    IF \E i \in 1..Len(rules) : rules[i].k = key
    THEN rules[CHOOSE i \in 1..Len(rules) : rules[i].k = key].v
    ELSE default

\* priority_rules.get(key, default)
RulesGet(key, default) == RulesGetIn(priority_rules, key, default)

\* the default of priority_rules.get(provider, 100)
UnknownProviderPriority == 100

(***************************************************************************)
(* LLMModelDiscovery._calculate_priority                                   *)
(***************************************************************************)

\* the negative-valued rules whose key occurs in the model name,
\* longest key first (sorted(..., key=len, reverse=True))
SortedModelBonusesIn(rules, model_name) ==
    LET Matches(e) == e.v < 0 /\ Contains(model_name, e.k)
        bonuses == SelectSeq(rules, Matches)
    IN  StableSortBy(bonuses, [i \in 1..Len(bonuses) |-> 0 - Len(bonuses[i].k)])

sorted_model_bonuses(model_name) == SortedModelBonusesIn(priority_rules, model_name)

\* "for _model_key, bonus in sorted_model_bonuses: priority += bonus; break"
FirstBonus(bonuses) == IF Len(bonuses) > 0 THEN bonuses[1].v ELSE 0

RECURSIVE SumBonuses(_)
SumBonuses(bonuses) ==
    IF bonuses = <<>> THEN 0 ELSE bonuses[1].v + SumBonuses(Tail(bonuses))

\* variant of CalculatePriorityIn: the loop has no break, every matching
\* bonus is added
CalculatePriorityIn_every_bonus(rules, provider, model_name, is_chat, is_experimental) ==
    RulesGetIn(rules, provider, UnknownProviderPriority)
    + (IF is_chat THEN RulesGetIn(rules, "chat_bonus", 0) ELSE 0)
    + (IF is_experimental THEN RulesGetIn(rules, "experimental_penalty", 0) ELSE 0)
    + SumBonuses(SortedModelBonusesIn(rules, model_name))
    + SumBonuses(SortedModelBonusesIn(rules, model_name))

\* _calculate_priority of an object whose priority_rules is rules; the
\* source runs the bonus loop twice
CalculatePriorityIn(rules, provider, model_name, is_chat, is_experimental) ==
    RulesGetIn(rules, provider, UnknownProviderPriority)
    + (IF is_chat THEN RulesGetIn(rules, "chat_bonus", 0) ELSE 0)
    + (IF is_experimental THEN RulesGetIn(rules, "experimental_penalty", 0) ELSE 0)
    + FirstBonus(SortedModelBonusesIn(rules, model_name))
    + FirstBonus(SortedModelBonusesIn(rules, model_name))

_calculate_priority(provider, model_name, is_chat, is_experimental) ==
    CalculatePriorityIn(priority_rules, provider, model_name, is_chat, is_experimental)

\* _calculate_priority of the copy in services.py: the same statements
\* over its own priority_rules
services__calculate_priority(provider, model_name, is_chat, is_experimental) ==
    CalculatePriorityIn(services_priority_rules, provider, model_name, is_chat,
                        is_experimental)

(***************************************************************************)
(* LLMModelDiscovery._parse_models_output                                  *)
(***************************************************************************)

AliasesOpen == " (aliases: "

\* re.match(r"^(.*?)(?: \(aliases: (.*)\))?$", model_part): the lazy first
\* group ends at the first " (aliases: " that can still be closed by the
\* final ")"; without one it is the whole text and group 2 is None
MatchModelPart(model_part) ==
    LET n == Len(model_part)
        opens == {i \in 1..n :
                    /\ i + Len(AliasesOpen) <= n
                    /\ SubSeq(model_part, i, i + Len(AliasesOpen) - 1) = AliasesOpen
                    /\ CharAt(model_part, n) = ")"}
    IN  IF opens = {}
        THEN [g1 |-> model_part, g2 |-> NoneVal]
        ELSE LET i == CHOOSE a \in opens : \A b \in opens : a <= b
             IN  [g1 |-> SubSeq(model_part, 1, i - 1),
                  g2 |-> SubSeq(model_part, i + Len(AliasesOpen), n - 1)]

ExperimentalKeywords == <<"preview", "experimental", "exp", "thinking", "test">>

\* variant of ParseLine: the experimental keywords are looked for as
\* substrings of the name
ParseLine_keyword_substrings(raw_line) ==
    LET line == Strip(raw_line)
        parts == SplitOnce(line, ": ")
    IN  IF line = "" \/ StartsWith(line, "Default:") THEN <<>>
        ELSE IF Len(parts) # 2 THEN <<>>
        ELSE
          LET provider == Strip(parts[1])
              model_part == Strip(parts[2])
              m == MatchModelPart(model_part)
              model_name == Strip(m.g1)
              aliases_str == m.g2
              split_aliases == Split(aliases_str, ", ")
              aliases == IF aliases_str # NoneVal /\ aliases_str # ""
                         THEN [i \in 1..Len(split_aliases) |-> Strip(split_aliases[i])]
                         ELSE <<>>
              is_chat == EndsWith(provider, "Chat") \/ ~EndsWith(provider, "Completion")
              is_experimental ==
                  \E i \in 1..Len(ExperimentalKeywords) :
                      Contains(Lower(model_name), ExperimentalKeywords[i])
              priority == _calculate_priority(provider, model_name, is_chat, is_experimental)
          IN  <<LLMModel(model_name, provider, aliases, is_chat, is_experimental, priority)>>

\* one iteration of the loop over lines: <<>> for a skipped line
ParseLine(raw_line) ==
    LET line == Strip(raw_line)
        parts == SplitOnce(line, ": ")
    IN  IF line = "" \/ StartsWith(line, "Default:") THEN <<>>
        ELSE IF Len(parts) # 2 THEN <<>>
        ELSE
          LET provider == Strip(parts[1])
              model_part == Strip(parts[2])
              m == MatchModelPart(model_part)
              model_name == Strip(m.g1)
              aliases_str == m.g2
              split_aliases == Split(aliases_str, ", ")
              aliases == IF aliases_str # NoneVal /\ aliases_str # ""
                         THEN [i \in 1..Len(split_aliases) |-> Strip(split_aliases[i])]
                         ELSE <<>>
              is_chat == EndsWith(provider, "Chat") \/ ~EndsWith(provider, "Completion")
              is_experimental ==
                  \E i \in 1..Len(ExperimentalKeywords) :
                      SearchWord(Lower(model_name), ExperimentalKeywords[i])
              priority == _calculate_priority(provider, model_name, is_chat, is_experimental)
          IN  <<LLMModel(model_name, provider, aliases, is_chat, is_experimental, priority)>>

RECURSIVE ParseLines(_)
ParseLines(lines) ==
    IF lines = <<>> THEN <<>> ELSE ParseLine(Head(lines)) \o ParseLines(Tail(lines))

_parse_models_output(output) == ParseLines(Split(Strip(output), "\n"))

\* models with the priorities the copy in services.py gives them
ServicesPriorities(models) ==
    [i \in 1..Len(models) |->
        [models[i] EXCEPT !.priority =
            services__calculate_priority(models[i].provider, models[i].name,
                                         models[i].is_chat, models[i].is_experimental)]]

\* _parse_models_output of the copy in services.py: the same statements,
\* every field but the priority is computed alike and the priority comes
\* from the copy's own _calculate_priority
services__parse_models_output(output) == ServicesPriorities(_parse_models_output(output))

(***************************************************************************)
(* LLMModelDiscovery._filter_and_prioritize                                *)
(***************************************************************************)

DeprecatedKeywords == <<"1106-preview", "0125-preview", "32k", "instruct", "davinci", "curie">>

AudioKeywords == <<"audio">>

\* filtered[:15]
MaxModels == 15

\* the loop that builds `filtered`: TRUE when the model is appended
Keeps(model) ==
    /\ ~model.is_experimental
    /\ ~\E i \in 1..Len(DeprecatedKeywords) :
            Contains(Lower(model.name), DeprecatedKeywords[i])
    /\ ~\E i \in 1..Len(AudioKeywords) :
            Contains(Lower(model.name), AudioKeywords[i])

FilterModels(models) == SelectSeq(models, Keeps)

\* key=lambda m: m.priority
PriorityKeys(models) == [i \in 1..Len(models) |-> models[i].priority]

\* variant of SortByPriority: models of equal priority come out in reverse
SortByPriority_ties_reversed(models) ==
    LET n == Len(models)
        reversed == [i \in 1..n |-> models[n + 1 - i]]
    IN  StableSortBy(reversed, PriorityKeys(reversed))

\* filtered.sort(key=lambda m: m.priority)
SortByPriority(models) == StableSortBy(models, PriorityKeys(models))

\* variant of _filter_and_prioritize: the list is cut before it is sorted
_filter_and_prioritize_cut_first(models) ==
    SortByPriority(Take(FilterModels(models), MaxModels))

_filter_and_prioritize(models) ==
    Take(SortByPriority(FilterModels(models)), MaxModels)

(***************************************************************************)
(* The model-listing tool ("llm models list") and the outputs it is given  *)
(* in the model.                                                           *)
(***************************************************************************)

\* longest generated listing, in lines
MaxLines == 2

\* latest clock value
MaxTime == 2

LinePool == <<
    "OpenAI Chat: gpt-4-turbo (aliases: 4t, gpt-4)",
    "OpenAI Chat: gpt-4" >>

RECURSIVE JoinLines(_)
JoinLines(lines) ==
    IF lines = <<>> THEN "" ELSE Head(lines) \o "\n" \o JoinLines(Tail(lines))

GeneratedListings ==
    {JoinLines([i \in DOMAIN ix |-> LinePool[ix[i]]]) :
        ix \in UNION {[1..m -> 1..Len(LinePool)] : m \in 1..MaxLines}}

\* mock_llm_output of the test suite
FixtureListing ==
    "\n    OpenAI Chat: gpt-4o (aliases: 4o)\n    OpenAI Chat: gpt-4o-mini\n"
    \o "    OpenAI Completion: gpt-3.5-turbo-instruct\n"
    \o "    GeminiPro: gemini-1.5-pro-latest\n"
    \o "    Anthropic: claude-3-opus-20240229 (experimental)\n    "

\* a listing with more than MaxModels usable models
LongListing ==
    "OpenAI Chat: gpt-4o (aliases: 4o)\n"
    \o "OpenAI Chat: gpt-4o-mini (aliases: 4o-mini)\n"
    \o "OpenAI Chat: gpt-4o-audio-preview\n"
    \o "OpenAI Chat: gpt-3.5-turbo (aliases: 3.5, chatgpt)\n"
    \o "OpenAI Chat: gpt-4-32k\n"
    \o "OpenAI Completion: gpt-3.5-turbo-instruct\n"
    \o "OpenAI Chat: whisper-Audio\n"
    \o "Groq: mixtral-8x7b\n"
    \o "Cohere: command-r\n"
    \o "Anthropic: claude-3-opus\n"
    \o "Anthropic: claude-3-sonnet\n"
    \o "Anthropic: claude-3-haiku\n"
    \o "Mistral: mistral-large\n"
    \o "Mistral: mistral-small\n"
    \o "GeminiPro: gemini-pro\n"
    \o "GeminiPro: gemini-1.5-pro-latest\n"
    \o "GeminiPro: gemini-2.0-flash\n"
    \o "Ollama: llama3.2:latest\n"
    \o "Ollama: llama3.1:8b\n"
    \o "Ollama: codellama:7b\n"
    \o "Ollama: llama2:7b\n"
    \o "Cohere: command-r-plus\n"
    \o "Groq: gemma-7b\n"

\* stdout values of a run that exits with status 0
\* a listing with models served by Ollama
OllamaListing ==
    "Ollama: llama3.2:latest\nOllama: phi3:mini\nOpenAI Chat: gpt-4o (aliases: 4o)"

Listings == GeneratedListings \cup {"", " \n", FixtureListing, LongListing, OllamaListing}

ToolResult(kind, returncode, stdout) ==
    [kind |-> kind, returncode |-> returncode, stdout |-> stdout]

\* what subprocess.run(["llm", "models", "list"], timeout=10) can do
ToolOutcomes ==
    {ToolResult("exit", 0, o) : o \in Listings}
    \cup {ToolResult("exit", 1, FixtureListing),
          ToolResult("TimeoutExpired", 0, ""), ToolResult("FileNotFoundError", 0, "")}

\* the tool was missing, exited with a non-zero status or timed out
ToolFailed(outcome) ==
    \/ outcome.kind = "FileNotFoundError"
    \/ outcome.kind = "TimeoutExpired"
    \/ outcome.kind = "exit" /\ outcome.returncode # 0

\* the tool was not started
NotRun == ToolResult("not run", 0, "")

\* LLMModelDiscovery._run_llm_models_list
_run_llm_models_list(outcome) ==
    IF outcome.kind = "exit" /\ outcome.returncode = 0 THEN outcome.stdout ELSE NoneVal

\* _parse_models_output and _filter_and_prioritize, tabulated over the
\* tool outputs of the model
ParsedOutput == [o \in Listings |-> _parse_models_output(o)]

FilteredOutput == [o \in Listings |-> _filter_and_prioritize(ParsedOutput[o])]

\* the same table for the copy in services.py
ServicesFilteredOutput ==
    [o \in Listings |-> _filter_and_prioritize(services__parse_models_output(o))]

(***************************************************************************)
(* State of one LLMModelDiscovery object and of its callers.               *)
(***************************************************************************)

VARIABLES
    cache_timeout,      \* self.cache_timeout
    _cached_models,     \* self._cached_models: None or Some(list of models)
    _cache_timestamp,   \* self._cache_timestamp
    clock,              \* time.time()
    last,               \* the most recent completed call and what it returned
    snapshot_output,    \* history: the tool output _cached_models was built from
    threads,            \* concurrent callers of discover_models (SpecConc)
    config,             \* self.config of the summarizer: a SummaryConfig
    url,                \* the URL handed to the summarizer
    services,           \* the LLMModelDiscovery object of services.py
    detected            \* what detect_url_type(url) returns to the summarizer

vars == <<cache_timeout, _cached_models, _cache_timestamp, clock, last,
          snapshot_output, threads, config, url, services,
          detected>>

\* SummaryConfig: the fields the summarizer's prompt selection reads
SummaryConfig(format, system_prompt) ==
    [format |-> format, system_prompt |-> system_prompt]

\* SummaryConfig() with the defaults of settings
DefaultConfig == SummaryConfig("bullet", NoneVal)

\* constructor arguments tried: 0 disables the cache (as the tests do)
CacheTimeouts == {0, 2}

\* names looked up
LookupNames == {"gpt-4", "4t", "gpt-4-turbo", "no-such-model"}

\* `after_failure` tells whether the call before this one ran the tool and
\* the tool failed
Call(op, force_refresh, name, how, runs, models, ret, outcome) ==
    [op |-> op, force_refresh |-> force_refresh, name |-> name, how |-> how,
     runs |-> runs, models |-> models, ret |-> ret, outcome |-> outcome,
     after_failure |-> last.how = "fallback" /\ ToolFailed(last.outcome)]

NoCall == [op |-> "none", force_refresh |-> FALSE, name |-> NoneVal, how |-> "none",
           runs |-> 0, models |-> <<>>, ret |-> None, outcome |-> NotRun,
           after_failure |-> FALSE]

\* services.LLMModelDiscovery.__init__: the cache fields of a new object
ServicesObject == [_cached_models |-> None, _cache_timestamp |-> 0]

NoThreads == <<>>

Init ==
    /\ cache_timeout \in CacheTimeouts
    /\ _cached_models = None
    /\ _cache_timestamp = 0
    /\ clock = 0
    /\ last = NoCall
    /\ snapshot_output = NoneVal
    /\ threads = NoThreads
    /\ services = ServicesObject
    /\ detected = None
    /\ config = DefaultConfig
    /\ url = NoneVal

(***************************************************************************)
(* LLMModelDiscovery.discover_models                                       *)
(***************************************************************************)

\* variant of CacheValid: a snapshot whose age equals the timeout is served
CacheValid_inclusive(force_refresh, cached, stamp, timeout, current_time) ==
    /\ ~force_refresh
    /\ cached # None
    /\ current_time - stamp <= timeout

\* the condition of "Use cache if valid and not forcing refresh"
CacheValid(force_refresh, cached, stamp, timeout, current_time) ==
    /\ ~force_refresh
    /\ cached # None
    /\ current_time - stamp < timeout

\* "if output:" for Optional[str]
Truthy(output) == output # NoneVal /\ output # ""

\* variant of discover_models: the fallback catalog is stored in the cache
discover_models_caching_fallback(force_refresh, outcome, cached, stamp, timeout, current_time) ==
    IF CacheValid(force_refresh, cached, stamp, timeout, current_time)
    THEN [ret |-> ValueOf(cached), cached |-> cached, stamp |-> stamp,
          how |-> "cache", runs |-> 0, outcome |-> NotRun]
    ELSE LET output == _run_llm_models_list(outcome)
             models == IF Truthy(output) THEN FilteredOutput[output]
                       ELSE fallback_models
         IN  [ret |-> models, cached |-> Some(models), stamp |-> current_time,
              how |-> IF Truthy(output) THEN "fresh" ELSE "fallback", runs |-> 1,
              outcome |-> outcome]

\* variant of discover_models: a failed retrieval returns the old snapshot
discover_models_stale_on_failure(force_refresh, outcome, cached, stamp, timeout, current_time) ==
    IF CacheValid(force_refresh, cached, stamp, timeout, current_time)
    THEN [ret |-> ValueOf(cached), cached |-> cached, stamp |-> stamp,
          how |-> "cache", runs |-> 0, outcome |-> NotRun]
    ELSE LET output == _run_llm_models_list(outcome)
         IN  IF Truthy(output)
             THEN [ret |-> FilteredOutput[output],
                   cached |-> Some(FilteredOutput[output]),
                   stamp |-> current_time, how |-> "fresh", runs |-> 1,
                   outcome |-> outcome]
             ELSE [ret |-> IF cached # None THEN ValueOf(cached) ELSE fallback_models,
                   cached |-> cached, stamp |-> stamp,
                   how |-> "fallback", runs |-> 1, outcome |-> outcome]

\* variant of discover_models: a refresh extends the snapshot it replaces
discover_models_merging(force_refresh, outcome, cached, stamp, timeout, current_time) ==
    IF CacheValid(force_refresh, cached, stamp, timeout, current_time)
    THEN [ret |-> ValueOf(cached), cached |-> cached, stamp |-> stamp,
          how |-> "cache", runs |-> 0, outcome |-> NotRun]
    ELSE LET output == _run_llm_models_list(outcome)
         IN  IF Truthy(output)
             THEN LET merged == IF cached # None
                                THEN FilteredOutput[output] \o ValueOf(cached)
                                ELSE FilteredOutput[output]
                  IN  [ret |-> merged, cached |-> Some(merged),
                       stamp |-> current_time, how |-> "fresh", runs |-> 1,
                       outcome |-> outcome]
             ELSE [ret |-> fallback_models, cached |-> cached, stamp |-> stamp,
                   how |-> "fallback", runs |-> 1, outcome |-> outcome]

\* the effect of one call: the value returned, the two cache fields after
\* it, the path taken, the number of runs of the tool and what the tool did
discover_models(force_refresh, outcome, cached, stamp, timeout, current_time) ==
    IF CacheValid(force_refresh, cached, stamp, timeout, current_time)
    THEN [ret |-> ValueOf(cached), cached |-> cached, stamp |-> stamp,
          how |-> "cache", runs |-> 0, outcome |-> NotRun]
    ELSE LET output == _run_llm_models_list(outcome)
         IN  IF Truthy(output)
             THEN LET filtered_models == FilteredOutput[output]
                  IN  [ret |-> filtered_models, cached |-> Some(filtered_models),
                       stamp |-> current_time, how |-> "fresh", runs |-> 1,
                       outcome |-> outcome]
             ELSE [ret |-> fallback_models, cached |-> cached, stamp |-> stamp,
                   how |-> "fallback", runs |-> 1, outcome |-> outcome]

\* discover_models of the copy in services.py
services_discover_models(force_refresh, outcome, cached, stamp, timeout, current_time) ==
    IF CacheValid(force_refresh, cached, stamp, timeout, current_time)
    THEN [ret |-> ValueOf(cached), cached |-> cached, stamp |-> stamp,
          how |-> "cache", runs |-> 0, outcome |-> NotRun]
    ELSE LET output == _run_llm_models_list(outcome)
         IN  IF Truthy(output)
             THEN LET filtered_models == ServicesFilteredOutput[output]
                  IN  [ret |-> filtered_models, cached |-> Some(filtered_models),
                       stamp |-> current_time, how |-> "fresh", runs |-> 1,
                       outcome |-> outcome]
             ELSE [ret |-> services_fallback_models, cached |-> cached, stamp |-> stamp,
                   how |-> "fallback", runs |-> 1, outcome |-> outcome]

\* the tool outcomes a call can meet: the tool is not run, and so has no
\* outcome, when the call is served from the cache
OutcomesFor(force_refresh) ==
    IF CacheValid(force_refresh, _cached_models, _cache_timestamp, cache_timeout, clock)
    THEN {NotRun}
    ELSE ToolOutcomes

\* the part of a call every public method shares: it calls
\* discover_models once and the object's fields follow
Discovered(d) ==
    /\ _cached_models' = d.cached
    /\ _cache_timestamp' = d.stamp
    /\ snapshot_output' = IF d.how = "fresh" THEN d.outcome.stdout ELSE snapshot_output

DiscoverModels(force_refresh, outcome) ==
    LET d == discover_models(force_refresh, outcome, _cached_models,
                             _cache_timestamp, cache_timeout, clock)
    IN  /\ outcome \in OutcomesFor(force_refresh)
        /\ Discovered(d)
        /\ last' = Call("discover_models", force_refresh, NoneVal, d.how, d.runs,
                        d.ret, d.ret, d.outcome)
        /\ UNCHANGED <<detected, services, config, url, cache_timeout, clock, threads>>

(***************************************************************************)
(* LLMModelDiscovery.get_model_by_name                                     *)
(***************************************************************************)

\* variant of get_model_by_name: aliases are not looked at
get_model_by_name_names_only(models, name) ==
    LET hits == {i \in 1..Len(models) : models[i].name = name}
    IN  IF hits = {} THEN None
        ELSE Some(models[CHOOSE i \in hits : \A j \in hits : i <= j])

\* the loop over models: the first model whose name or aliases match
get_model_by_name(models, name) ==
    LET hits == {i \in 1..Len(models) :
                    models[i].name = name \/ InList(name, models[i].aliases)}
    IN  IF hits = {} THEN None
        ELSE Some(models[CHOOSE i \in hits : \A j \in hits : i <= j])

GetModelByName(name, outcome) ==
    LET d == discover_models(FALSE, outcome, _cached_models,
                             _cache_timestamp, cache_timeout, clock)
    IN  /\ outcome \in OutcomesFor(FALSE)
        /\ Discovered(d)
        /\ last' = Call("get_model_by_name", FALSE, name, d.how, d.runs,
                        d.ret, get_model_by_name(d.ret, name), d.outcome)
        /\ UNCHANGED <<detected, services, config, url, cache_timeout, clock, threads>>

\* time passes between calls
Tick ==
    /\ clock < MaxTime
    /\ clock' = clock + 1
    /\ UNCHANGED <<detected, services, config, url, cache_timeout, _cached_models,
                   _cache_timestamp, last,
                   snapshot_output, threads>>

Next ==
    \/ Tick
    \/ \E force_refresh \in BOOLEAN, outcome \in ToolOutcomes \cup {NotRun} :
            DiscoverModels(force_refresh, outcome)
    \/ \E name \in LookupNames, outcome \in ToolOutcomes \cup {NotRun} :
            GetModelByName(name, outcome)

Spec == Init /\ [][Next]_vars

(***************************************************************************)
(* The catalog queries built on discover_models: get_recommended_models,   *)
(* get_models_by_category and validate_model (SpecCatalog).  One call of   *)
(* validate_model calls discover_models up to three times, and the tool    *)
(* can answer each of them differently.                                    *)
(***************************************************************************)

\* all_models[:6]
get_recommended_models(all_models) == Take(all_models, 6)

Names(models) == [i \in 1..Len(models) |-> models[i].name]

\* tool outcomes met by the catalog queries
CatalogOutcomes ==
    {ToolResult("exit", 0, JoinLines(LinePool)),
     ToolResult("exit", 0, LongListing),
     ToolResult("exit", 0, " \n"),
     ToolResult("exit", 1, "")}

\* names validated
ValidateNames == {"4t", "GPT-4", "claude", "gpt-4-turbo", "LATEST"}

\* the models the catalog queries can meet
CatalogModels ==
    Elements(fallback_models)
    \cup UNION {Elements(FilteredOutput[_run_llm_models_list(o)]) :
                    o \in {c \in CatalogOutcomes \cup {ToolResult("exit", 0, OllamaListing)} :
                                ~ToolFailed(c)}}

\* s.lower() of every string the catalog queries lower-case
Lowered ==
    [s \in ValidateNames \cup {m.name : m \in CatalogModels}
           \cup UNION {Elements(m.aliases) : m \in CatalogModels} |-> Lower(s)]

BudgetKeywords == <<"mini", "3.5", "flash-8b", "nano">>

CategoryNames == {"recommended", "budget", "alternative"}

\* variant of Category: the provider test comes before the budget keywords
Category_alternative_first(model) ==
    IF model.provider = "Ollama" THEN "recommended"
    ELSE IF ~StartsWith(model.provider, "OpenAI") /\ model.provider # "Ollama"
    THEN "alternative"
    ELSE IF \E i \in 1..Len(BudgetKeywords) :
                Contains(Lowered[model.name], BudgetKeywords[i])
    THEN "budget"
    ELSE "recommended"

\* the if/elif chain of get_models_by_category
Category(model) ==
    IF model.provider = "Ollama" THEN "recommended"
    ELSE IF \E i \in 1..Len(BudgetKeywords) :
                Contains(Lowered[model.name], BudgetKeywords[i])
    THEN "budget"
    ELSE IF ~StartsWith(model.provider, "OpenAI") /\ model.provider # "Ollama"
    THEN "alternative"
    ELSE "recommended"

\* longest category list returned
MaxPerCategory == 5

get_models_by_category(all_models) ==
    [category \in CategoryNames |->
        LET InCategory(model) == Category(model) = category
        IN  Take(SelectSeq(all_models, InCategory), MaxPerCategory)]

\* the if/elif chain of get_models_by_category of the copy in services.py
services_Category(model) ==
    IF \E i \in 1..Len(BudgetKeywords) :
            Contains(Lowered[model.name], BudgetKeywords[i])
    THEN "budget"
    ELSE IF ~StartsWith(model.provider, "OpenAI")
    THEN "alternative"
    ELSE "recommended"

services_get_models_by_category(all_models) ==
    [category \in CategoryNames |->
        LET InCategory(model) == services_Category(model) = category
        IN  Take(SelectSeq(all_models, InCategory), MaxPerCategory)]

RECURSIVE Join(_, _)
\* sep.join(parts)
Join(sep, parts) ==
    IF parts = <<>> THEN ""
    ELSE IF Len(parts) = 1 THEN parts[1]
    ELSE parts[1] \o sep \o Join(sep, Tail(parts))

\* number of top models searched for partial matches
MaxSimilar == 5

\* number of recommended models suggested
MaxSuggested == 3

\* name_lower in model.name.lower() or any(name_lower in alias.lower() ...)
Similar(model, name_lower) ==
    \/ Contains(Lowered[model.name], name_lower)
    \/ \E i \in 1..Len(model.aliases) : Contains(Lowered[model.aliases[i]], name_lower)

SuggestionMsg(name, suggestions) ==
    "Model '" \o name \o "' not found. Try: " \o Join(", ", suggestions)

\* the value validate_model returns after its discover_models calls d1 (by
\* get_model_by_name), d2 (by validate_model itself) and d3 (by
\* get_recommended_models); partial matches are looked for in the first
\* top models; `calls` lists the calls made, in order
ValidateResult(top, name, d1, d2, d3) ==
    LET IsSimilar(m) == Similar(m, Lowered[name])
        partial == Names(SelectSeq(Take(d2.ret, top), IsSimilar))
    IN  IF get_model_by_name(d1.ret, name) # None
        THEN [ret |-> <<TRUE, NoneVal>>, calls |-> <<d1>>]
        ELSE IF partial # <<>>
        THEN [ret |-> <<FALSE, SuggestionMsg(name, partial)>>, calls |-> <<d1, d2>>]
        ELSE [ret |-> <<FALSE, SuggestionMsg(name,
                            Names(Take(get_recommended_models(d3.ret), MaxSuggested)))>>,
              calls |-> <<d1, d2, d3>>]

\* the third discover_models call follows the second
ValidateAfterSecond(top, name, outcomes, timeout, current_time, d1, d2) ==
    ValidateResult(top, name, d1, d2,
        discover_models(FALSE, outcomes[3], d2.cached, d2.stamp, timeout, current_time))

\* the second discover_models call follows the first
ValidateAfterFirst(top, name, outcomes, timeout, current_time, d1) ==
    ValidateAfterSecond(top, name, outcomes, timeout, current_time, d1,
        discover_models(FALSE, outcomes[2], d1.cached, d1.stamp, timeout, current_time))

\* variant of validate_model: partial matches are looked for in the whole
\* catalog
validate_model_all_models(name, outcomes, cached, stamp, timeout, current_time) ==
    ValidateAfterFirst(MaxModels, name, outcomes, timeout, current_time,
        discover_models(FALSE, outcomes[1], cached, stamp, timeout, current_time))

\* validate_model: outcomes[i] is what the tool does if the i-th
\* discover_models call runs it
validate_model(name, outcomes, cached, stamp, timeout, current_time) ==
    ValidateAfterFirst(MaxSimilar, name, outcomes, timeout, current_time,
        discover_models(FALSE, outcomes[1], cached, stamp, timeout, current_time))

\* most discover_models calls one validate_model call makes
MaxCalls == 3

\* tool outcomes met by the second and third discover_models call of one
\* validate_model call: another listing than before, or a failure
RepeatOutcomes ==
    {ToolResult("exit", 0, JoinLines(LinePool)), ToolResult("exit", 1, "")}

\* the tool outcomes a discover_models call can meet when the cache fields
\* are cached and stamp
OutcomesAt(outcomes, cached, stamp) ==
    IF CacheValid(FALSE, cached, stamp, cache_timeout, clock)
    THEN {NotRun}
    ELSE outcomes

\* the fields of `last` every call of SpecCatalog records; d is the last
\* discover_models call made
CatalogCall(op, name, d, calls, ret) ==
    [op |-> op, name |-> name, how |-> d.how, outcome |-> d.outcome,
     calls |-> calls, ret |-> ret]

\* the listing of the latest refresh among calls, if any
LastListing(calls) ==
    LET fresh == {i \in 1..Len(calls) : calls[i].how = "fresh"}
    IN  IF fresh = {} THEN snapshot_output
        ELSE calls[CHOOSE i \in fresh : \A j \in fresh : j <= i].outcome.stdout

\* what the discover_models calls of one method call leave in the object
DiscoveredAll(calls) ==
    /\ _cached_models' = calls[Len(calls)].cached
    /\ _cache_timestamp' = calls[Len(calls)].stamp
    /\ snapshot_output' = LastListing(calls)

\* outcomes[i] is an outcome call i can meet, and NotRun for a call that
\* is not made
OutcomesFit(outcomes, calls) ==
    \A i \in 1..MaxCalls :
        IF i > Len(calls) THEN outcomes[i] = NotRun
        ELSE IF i = 1
        THEN outcomes[i] \in OutcomesAt(CatalogOutcomes, _cached_models, _cache_timestamp)
        ELSE outcomes[i] \in OutcomesAt(RepeatOutcomes, calls[i - 1].cached,
                                        calls[i - 1].stamp)

ValidateModel(name, outcomes) ==
    \E v \in {validate_model(name, outcomes, _cached_models, _cache_timestamp,
                             cache_timeout, clock)} :
        /\ OutcomesFit(outcomes, v.calls)
        /\ DiscoveredAll(v.calls)
        /\ last' = CatalogCall("validate_model", name, v.calls[Len(v.calls)],
                               v.calls, v.ret)
        /\ UNCHANGED <<detected, services, config, url, cache_timeout, clock, threads>>

GetModelsByCategory(outcome) ==
    \E d \in {discover_models(FALSE, outcome, _cached_models, _cache_timestamp,
                              cache_timeout, clock)} :
        /\ outcome \in OutcomesAt(CatalogOutcomes, _cached_models, _cache_timestamp)
        /\ DiscoveredAll(<<d>>)
        /\ last' = CatalogCall("get_models_by_category", NoneVal, d, <<d>>,
                               get_models_by_category(d.ret))
        /\ UNCHANGED <<detected, services, config, url, cache_timeout, clock, threads>>

GetRecommendedModels(outcome) ==
    \E d \in {discover_models(FALSE, outcome, _cached_models, _cache_timestamp,
                              cache_timeout, clock)} :
        /\ outcome \in OutcomesAt(CatalogOutcomes, _cached_models, _cache_timestamp)
        /\ DiscoveredAll(<<d>>)
        /\ last' = CatalogCall("get_recommended_models", NoneVal, d, <<d>>,
                               get_recommended_models(d.ret))
        /\ UNCHANGED <<detected, services, config, url, cache_timeout, clock, threads>>

NextCatalog ==
    \/ Tick
    \/ \E outcome \in CatalogOutcomes \cup {NotRun} : GetRecommendedModels(outcome)
    \/ \E outcome \in CatalogOutcomes \cup {NotRun} : GetModelsByCategory(outcome)
    \/ \E name \in ValidateNames,
          outcomes \in {o \in [1..MaxCalls -> CatalogOutcomes \cup {NotRun}] :
                            \A i \in 2..MaxCalls : o[i] \in RepeatOutcomes \cup {NotRun}} :
            ValidateModel(name, outcomes)

SpecCatalog == Init /\ [][NextCatalog]_vars

(***************************************************************************)
(* The two copies of LLMModelDiscovery, llm_discovery.py and services.py,  *)
(* given the same calls (SpecCopies).  Both objects are built with the     *)
(* same cache_timeout, read the same clock and meet the same tool.         *)
(***************************************************************************)

\* validate_model of the copy in services.py: its discover_models calls
\* in order, each after the cache fields the call before it left
ServicesValidateAfterSecond(name, outcomes, timeout, current_time, d1, d2) ==
    ValidateResult(MaxSimilar, name, d1, d2,
        services_discover_models(FALSE, outcomes[3], d2.cached, d2.stamp, timeout,
                                 current_time))

ServicesValidateAfterFirst(name, outcomes, timeout, current_time, d1) ==
    ServicesValidateAfterSecond(name, outcomes, timeout, current_time, d1,
        services_discover_models(FALSE, outcomes[2], d1.cached, d1.stamp, timeout,
                                 current_time))

services_validate_model(name, outcomes, cached, stamp, timeout, current_time) ==
    ServicesValidateAfterFirst(name, outcomes, timeout, current_time,
        services_discover_models(FALSE, outcomes[1], cached, stamp, timeout,
                                 current_time))

\* what the tool does when a call of SpecCopies runs it
CopyOutcomes ==
    {ToolResult("exit", 0, OllamaListing),
     ToolResult("exit", 0, JoinLines(LinePool)),
     ToolResult("exit", 1, "")}

\* names validated on both copies
CopyNames == {"4o", "LATEST", "claude"}

\* one call made on both objects: what each copy returned
CopyCall(op, name, outcome, ret, services_ret) ==
    [op |-> op, name |-> name, outcome |-> outcome, ret |-> ret,
     services_ret |-> services_ret]

\* the cache fields a call leaves in the object of services.py
ServicesDiscovered(d) ==
    services' = [_cached_models |-> d.cached, _cache_timestamp |-> d.stamp]

BothDiscoverModels(force_refresh, outcome) ==
    \E d \in {discover_models(force_refresh, outcome, _cached_models,
                              _cache_timestamp, cache_timeout, clock)},
       sd \in {services_discover_models(force_refresh, outcome,
                              services._cached_models, services._cache_timestamp,
                              cache_timeout, clock)} :
        /\ DiscoveredAll(<<d>>)
        /\ ServicesDiscovered(sd)
        /\ last' = CopyCall("discover_models", NoneVal, outcome, d.ret, sd.ret)
        /\ UNCHANGED <<detected, config, url, cache_timeout, clock, threads>>

BothGetModelsByCategory(outcome) ==
    \E d \in {discover_models(FALSE, outcome, _cached_models,
                              _cache_timestamp, cache_timeout, clock)},
       sd \in {services_discover_models(FALSE, outcome,
                              services._cached_models, services._cache_timestamp,
                              cache_timeout, clock)} :
        /\ DiscoveredAll(<<d>>)
        /\ ServicesDiscovered(sd)
        /\ last' = CopyCall("get_models_by_category", NoneVal, outcome,
                            get_models_by_category(d.ret),
                            services_get_models_by_category(sd.ret))
        /\ UNCHANGED <<detected, config, url, cache_timeout, clock, threads>>

\* every run of the tool within the call ends as outcome
BothValidateModel(name, outcome) ==
    \E v \in {validate_model(name, [i \in 1..MaxCalls |-> outcome], _cached_models,
                             _cache_timestamp, cache_timeout, clock)},
       sv \in {services_validate_model(name, [i \in 1..MaxCalls |-> outcome],
                             services._cached_models, services._cache_timestamp,
                             cache_timeout, clock)} :
        /\ DiscoveredAll(v.calls)
        /\ ServicesDiscovered(sv.calls[Len(sv.calls)])
        /\ last' = CopyCall("validate_model", name, outcome, v.ret, sv.ret)
        /\ UNCHANGED <<detected, config, url, cache_timeout, clock, threads>>

NextCopies ==
    \/ Tick
    \/ \E force_refresh \in BOOLEAN, outcome \in CopyOutcomes :
            BothDiscoverModels(force_refresh, outcome)
    \/ \E outcome \in CopyOutcomes : BothGetModelsByCategory(outcome)
    \/ \E name \in CopyNames, outcome \in CopyOutcomes : BothValidateModel(name, outcome)

SpecCopies == Init /\ [][NextCopies]_vars

(***************************************************************************)
(* _calculate_priority applied to bounded inputs (SpecPriority).           *)
(***************************************************************************)

Providers == {"Ollama", "OpenAI Chat", "GeminiPro", "OpenAI Completion", "Anthropic"}

ModelNames == {"gpt-4o-mini", "gpt-4o", "gpt-4", "gpt-3.5-turbo", "llama3.2:latest",
               "gemini-1.5-pro-latest", "claude-3-opus", "mistral-small"}

CalculatePriority(provider, model_name, is_chat, is_experimental) ==
    /\ last' = [op |-> "_calculate_priority", provider |-> provider,
                model_name |-> model_name, is_chat |-> is_chat,
                is_experimental |-> is_experimental,
                ret |-> _calculate_priority(provider, model_name, is_chat,
                                            is_experimental)]
    /\ UNCHANGED <<detected, services, config, url, cache_timeout, _cached_models,
                   _cache_timestamp, clock,
                   snapshot_output, threads>>

NextPriority ==
    \E provider \in Providers, model_name \in ModelNames,
       is_chat \in BOOLEAN, is_experimental \in BOOLEAN :
        CalculatePriority(provider, model_name, is_chat, is_experimental)

SpecPriority == Init /\ [][NextPriority]_vars


(***************************************************************************)
(* _calculate_priority of an object whose priority_rules gives one model   *)
(* bonus key another weight (SpecRules).                                   *)
(***************************************************************************)

\* the bonus keys given another weight
ReweighedKeys == {"gpt-4", "gpt-4o", "gpt-4o-mini", "llama3.2", "mistral"}

\* weights a bonus key is given
Weights == {-20, 0, 3}

\* providers and names of the models whose priority is asked
RulesProviders == {"OpenAI Chat", "Anthropic"}

RulesModelNames == {"gpt-4o-mini", "gpt-4o", "gpt-4", "llama3.2:latest"}

\* the table rules with rules[key] = weight
WithWeight(rules, key, weight) ==
    [i \in 1..Len(rules) |->
        IF rules[i].k = key THEN [k |-> key, v |-> weight] ELSE rules[i]]

CalculatePriorityWith(key, weight, provider, model_name, is_chat, is_experimental) ==
    /\ last' = [op |-> "_calculate_priority", key |-> key, weight |-> weight,
                provider |-> provider, model_name |-> model_name,
                is_chat |-> is_chat, is_experimental |-> is_experimental,
                ret |-> CalculatePriorityIn(WithWeight(priority_rules, key, weight),
                                            provider, model_name, is_chat,
                                            is_experimental)]
    /\ UNCHANGED <<detected, services, config, url, cache_timeout, _cached_models,
                   _cache_timestamp, clock,
                   snapshot_output, threads>>

NextRules ==
    \E key \in ReweighedKeys, weight \in Weights, provider \in RulesProviders,
       model_name \in RulesModelNames, is_chat \in BOOLEAN,
       is_experimental \in BOOLEAN :
        CalculatePriorityWith(key, weight, provider, model_name, is_chat,
                              is_experimental)

SpecRules == Init /\ [][NextRules]_vars

(***************************************************************************)
(* _parse_models_output applied to bounded outputs (SpecParser).           *)
(***************************************************************************)

\* lines of the outputs parsed
ParserLines == <<
    "",
    "Default: gpt-4o",
    "Mistral:tiny",
    "  OpenAI Chat: gpt-4o (aliases: 4o, gpt4o)  ",
    "OpenAI Completion: gpt-3.5-turbo-instruct",
    "Anthropic: claude-3-opus (experimental)",
    "Ollama: latest-expert",
    "GeminiPro: Gemini-EXP-1206 (aliases: )" >>

\* most lines of one output
MaxOutputLines == 2

ParserOutputs ==
    {JoinLines([i \in DOMAIN ix |-> ParserLines[ix[i]]]) :
        ix \in UNION {[1..m -> 1..Len(ParserLines)] : m \in 0..MaxOutputLines}}

\* _parse_models_output of every output, computed once
ParserResults == [output \in ParserOutputs |-> _parse_models_output(output)]

ParseModelsOutput(output) ==
    /\ last' = [op |-> "_parse_models_output", output |-> output,
                ret |-> ParserResults[output]]
    /\ UNCHANGED <<detected, services, config, url, cache_timeout, _cached_models,
                   _cache_timestamp, clock,
                   snapshot_output, threads>>

NextParser == \E output \in ParserOutputs : ParseModelsOutput(output)

SpecParser == Init /\ [][NextParser]_vars

(***************************************************************************)
(* discover_models called from several threads (SpecConc): the statements  *)
(* of the method are separate steps, and the two cache fields are stored   *)
(* by two assignments.                                                     *)
(***************************************************************************)

\* number of concurrent callers
NumThreads == 2

Threads == 1..NumThreads

\* outcomes of the tool met by the concurrent callers
ConcOutcomes ==
    {ToolResult("exit", 0, JoinLines(<<LinePool[1]>>)),
     ToolResult("exit", 0, JoinLines(<<LinePool[2], LinePool[1]>>)),
     ToolResult("exit", 1, "")}

Thread(pc, force_refresh, current_time, output, filtered_models, how, ret) ==
    [pc |-> pc, force_refresh |-> force_refresh, current_time |-> current_time,
     output |-> output, filtered_models |-> filtered_models, how |-> how, ret |-> ret]

IdleThread == Thread("idle", FALSE, 0, NoneVal, <<>>, "none", None)

InitConc ==
    /\ cache_timeout \in CacheTimeouts
    /\ _cached_models = None
    /\ _cache_timestamp = 0
    /\ clock = 0
    /\ last = NoCall
    /\ snapshot_output = NoneVal
    /\ threads = [t \in Threads |-> IdleThread]
    /\ services = ServicesObject
    /\ detected = None
    /\ config = DefaultConfig
    /\ url = NoneVal

\* "current_time = time.time()"
BeginDiscover(t, force_refresh) ==
    /\ threads[t].pc = "idle"
    /\ threads' = [threads EXCEPT ![t] =
            Thread("check", force_refresh, clock, NoneVal, <<>>, "none", None)]
    /\ UNCHANGED <<detected, services, config, url, cache_timeout, _cached_models,
                   _cache_timestamp, clock, last,
                   snapshot_output>>

\* "not force_refresh and self._cached_models is not None"
CheckCached(t) ==
    /\ threads[t].pc = "check"
    /\ threads' = [threads EXCEPT ![t].pc =
            IF ~threads[t].force_refresh /\ _cached_models # None
            THEN "check_age" ELSE "run"]
    /\ UNCHANGED <<detected, services, config, url, cache_timeout, _cached_models,
                   _cache_timestamp, clock, last,
                   snapshot_output>>

\* "and current_time - self._cache_timestamp < self.cache_timeout"
CheckAge(t) ==
    /\ threads[t].pc = "check_age"
    /\ threads' = [threads EXCEPT ![t].pc =
            IF threads[t].current_time - _cache_timestamp < cache_timeout
            THEN "return_cached" ELSE "run"]
    /\ UNCHANGED <<detected, services, config, url, cache_timeout, _cached_models,
                   _cache_timestamp, clock, last,
                   snapshot_output>>

\* "return self._cached_models"
ReturnCached(t) ==
    /\ threads[t].pc = "return_cached"
    /\ threads' = [threads EXCEPT ![t].pc = "done", ![t].how = "cache",
                                  ![t].ret = Some(ValueOf(_cached_models))]
    /\ UNCHANGED <<detected, services, config, url, cache_timeout, _cached_models,
                   _cache_timestamp, clock, last,
                   snapshot_output>>

\* "output = self._run_llm_models_list()" up to "filtered_models = ...",
\* or "return self.fallback_models"
RunTool(t, outcome) ==
    /\ threads[t].pc = "run"
    /\ LET output == _run_llm_models_list(outcome)
       IN  threads' = [threads EXCEPT ![t] =
               IF Truthy(output)
               THEN [@ EXCEPT !.pc = "store_models", !.output = output,
                              !.filtered_models = FilteredOutput[output]]
               ELSE [@ EXCEPT !.pc = "done", !.how = "fallback",
                              !.ret = Some(fallback_models)]]
    /\ UNCHANGED <<detected, services, config, url, cache_timeout, _cached_models,
                   _cache_timestamp, clock, last,
                   snapshot_output>>

\* "self._cached_models = filtered_models"
StoreModels(t) ==
    /\ threads[t].pc = "store_models"
    /\ _cached_models' = Some(threads[t].filtered_models)
    /\ snapshot_output' = threads[t].output
    /\ threads' = [threads EXCEPT ![t].pc = "store_timestamp"]
    /\ UNCHANGED <<detected, services, config, url, cache_timeout, _cache_timestamp,
                   clock, last>>

\* "self._cache_timestamp = current_time" and "return filtered_models"
StoreTimestamp(t) ==
    /\ threads[t].pc = "store_timestamp"
    /\ _cache_timestamp' = threads[t].current_time
    /\ threads' = [threads EXCEPT ![t].pc = "done", ![t].how = "fresh",
                                  ![t].ret = Some(threads[t].filtered_models)]
    /\ UNCHANGED <<detected, services, config, url, cache_timeout, _cached_models, clock,
                   last, snapshot_output>>

NextConc ==
    \/ Tick
    \/ \E t \in Threads, force_refresh \in BOOLEAN : BeginDiscover(t, force_refresh)
    \/ \E t \in Threads : CheckCached(t)
    \/ \E t \in Threads : CheckAge(t)
    \/ \E t \in Threads : ReturnCached(t)
    \/ \E t \in Threads, outcome \in ConcOutcomes : RunTool(t, outcome)
    \/ \E t \in Threads : StoreModels(t)
    \/ \E t \in Threads : StoreTimestamp(t)

SpecConc == InitConc /\ [][NextConc]_vars

(***************************************************************************)
(* The URL router of the summarizers (URLSummarizer and LLMSummaryService  *)
(* carry the same code): urllib.parse, the regular expressions, the three  *)
(* id extractors and detect_url_type (SpecUrl).                            *)
(* The URLs of the model are ASCII and hold no whitespace, ';' or '%', so  *)
(* the stripping, parameter splitting and percent-decoding of urllib.parse *)
(* leave them alone.                                                       *)
(***************************************************************************)

\* s[i:] for a 1-based i
From(s, i) == SubSeq(s, i, Len(s))

Digits == {"0","1","2","3","4","5","6","7","8","9"}

Letters == {UpperCase[i] : i \in 1..26} \cup {LowerCase[i] : i \in 1..26}

\* urllib.parse.scheme_chars
SchemeChars == Letters \cup Digits \cup {"+", "-", "."}

\* the class [0-9A-Za-z_-]
IdChars == Letters \cup Digits \cup {"_", "-"}

\* length of the longest run of characters of chars that starts at s[i]
RunIn(s, i, chars) ==
    LET stops == {j \in i..Len(s) : CharAt(s, j) \notin chars}
    IN  IF stops = {} THEN Len(s) - i + 1
        ELSE (CHOOSE j \in stops : \A k \in stops : j <= k) - i

\* length of the longest run of characters outside chars that starts at s[i]
RunNotIn(s, i, chars) ==
    LET stops == {j \in i..Len(s) : CharAt(s, j) \in chars}
    IN  IF stops = {} THEN Len(s) - i + 1
        ELSE (CHOOSE j \in stops : \A k \in stops : j <= k) - i

\* lit occurs in s at position i
At(s, i, lit) == i >= 1 /\ i + Len(lit) - 1 <= Len(s) /\ SubSeq(s, i, i + Len(lit) - 1) = lit

\* the least member of a non-empty set of positions
Leftmost(positions) == CHOOSE i \in positions : \A j \in positions : i <= j

\* urllib.parse.urlparse(url): raised stands for the ValueError of an
\* unbalanced '[' or ']' in the network location
urlparse(u) ==
    LET colon == Find(u, ":")
        has_scheme == /\ colon > 1
                      /\ CharAt(u, 1) \in Letters
                      /\ RunIn(u, 1, SchemeChars) >= colon - 1
        scheme == IF has_scheme THEN Lower(SubSeq(u, 1, colon - 1)) ELSE ""
        rest == IF has_scheme THEN From(u, colon + 1) ELSE u
        has_netloc == StartsWith(rest, "//")
        netloc_len == IF has_netloc THEN RunNotIn(rest, 3, {"/", "?", "#"}) ELSE 0
        netloc == IF has_netloc THEN SubSeq(rest, 3, 2 + netloc_len) ELSE ""
        after == IF has_netloc THEN From(rest, 3 + netloc_len) ELSE rest
        no_fragment == SplitOnce(after, "#")[1]
        parts == SplitOnce(no_fragment, "?")
    IN  [raised |-> Contains(netloc, "[") # Contains(netloc, "]"),
         scheme |-> scheme,
         netloc |-> netloc,
         path   |-> parts[1],
         query  |-> IF Len(parts) = 2 THEN parts[2] ELSE ""]

RECURSIVE ReplacePlus(_)
\* s.replace("+", " ")
ReplacePlus(s) ==
    IF s = "" THEN ""
    ELSE (IF CharAt(s, 1) = "+" THEN " " ELSE CharAt(s, 1)) \o ReplacePlus(Tail(s))

\* urllib.parse.parse_qs(query).get(key): the values of key in order, blank
\* values and fields without '=' dropped; <<>> when key is not in the dict
parse_qs(query, key) ==
    LET fields == Split(query, "&")
        IsPair(f) == Len(SplitOnce(f, "=")) = 2 /\ SplitOnce(f, "=")[2] # ""
        pairs == SelectSeq(fields, IsPair)
        HasKey(f) == ReplacePlus(SplitOnce(f, "=")[1]) = key
        mine == SelectSeq(pairs, HasKey)
    IN  [i \in 1..Len(mine) |-> ReplacePlus(SplitOnce(mine[i], "=")[2])]

\* "(https?://)?(www\.)?" at the start of u: the position after it
AfterPrefix(u) ==
    LET p == IF StartsWith(u, "https://") THEN 9
             ELSE IF StartsWith(u, "http://") THEN 8 ELSE 1
    IN  IF At(u, p, "www.") THEN p + 4 ELSE p

\* url_patterns["reddit"].match(u).group(4), NoneVal when there is no match:
\* ^(https?://)?(www\.)?reddit\.com/(r/[^/]+/comments/|comments/)([a-zA-Z0-9_]+).*
MatchReddit(u) ==
    LET p == AfterPrefix(u)
        q == p + Len("reddit.com/")
        sub_len == RunNotIn(u, q + 2, {"/"})
        id_at == IF At(u, q, "r/") /\ sub_len >= 1 /\ At(u, q + 2 + sub_len, "/comments/")
                 THEN q + 2 + sub_len + Len("/comments/")
                 ELSE IF At(u, q, "comments/") THEN q + Len("comments/")
                 ELSE 0
    IN  IF At(u, p, "reddit.com/") /\ id_at > 0 /\ RunIn(u, id_at, WordChars) >= 1
        THEN SubSeq(u, id_at, id_at + RunIn(u, id_at, WordChars) - 1)
        ELSE NoneVal

\* variant of MatchHackerNews: the group holds one digit
MatchHackerNews_first_digit(u) ==
    LET p == AfterPrefix(u)
        lit == "news.ycombinator.com/item?id="
        id_at == p + Len(lit)
    IN  IF At(u, p, lit) /\ RunIn(u, id_at, Digits) >= 1
        THEN CharAt(u, id_at)
        ELSE NoneVal

\* url_patterns["hacker_news"].match(u).group(3), NoneVal when there is no
\* match: ^(https?://)?(www\.)?news\.ycombinator\.com/item\?id=([0-9]+).*
MatchHackerNews(u) ==
    LET p == AfterPrefix(u)
        lit == "news.ycombinator.com/item?id="
        id_at == p + Len(lit)
    IN  IF At(u, p, lit) /\ RunIn(u, id_at, Digits) >= 1
        THEN SubSeq(u, id_at, id_at + RunIn(u, id_at, Digits) - 1)
        ELSE NoneVal

\* length of a YouTube video id
IdLength == 11

\* re.search of a pattern lit([0-9A-Za-z_-]{11}) for one of the literals
\* lits: group 1 of the leftmost match, NoneVal when there is none
SearchId(u, lits) ==
    LET hits == {i \in 1..Len(u) :
                    \E lit \in lits :
                        At(u, i, lit) /\ RunIn(u, i + Len(lit), IdChars) >= IdLength}
    IN  IF hits = {} THEN NoneVal
        ELSE LET i == Leftmost(hits)
                 lit == CHOOSE l \in lits :
                            At(u, i, l) /\ RunIn(u, i + Len(l), IdChars) >= IdLength
             IN  SubSeq(u, i + Len(lit), i + Len(lit) + IdLength - 1)

\* re.search of a pattern lit([^c]+): group 1 of the leftmost match, NoneVal
\* when there is none
SearchUntil(u, lit, c) ==
    LET hits == {i \in 1..Len(u) :
                    At(u, i, lit) /\ RunNotIn(u, i + Len(lit), {c}) >= 1}
    IN  IF hits = {} THEN NoneVal
        ELSE LET at == Leftmost(hits) + Len(lit)
             IN  SubSeq(u, at, at + RunNotIn(u, at, {c}) - 1)

\* the patterns of extract_youtube_id, in order
YoutubePatterns(u) ==
    << SearchId(u, {"v=", "/"}),
       SearchId(u, {"embed/"}),
       SearchId(u, {"youtu.be/"}),
       SearchUntil(u, "youtube.com/watch?v=", "&"),
       SearchUntil(u, "youtube.com/v/", "?") >>

\* "Fallback using URL parsing" of extract_youtube_id
YoutubeFallback(u) ==
    LET parsed == urlparse(u)
    IN  IF parsed.raised THEN NoneVal
        ELSE IF parsed.netloc \in {"www.youtube.com", "youtube.com"} /\ parsed.path = "/watch"
        THEN IF parse_qs(parsed.query, "v") # <<>>
             THEN parse_qs(parsed.query, "v")[1] ELSE NoneVal
        ELSE IF parsed.netloc = "youtu.be" /\ StartsWith(parsed.path, "/")
        THEN From(parsed.path, 2)
        ELSE NoneVal

extract_youtube_id(u) ==
    LET found == {i \in 1..Len(YoutubePatterns(u)) : YoutubePatterns(u)[i] # NoneVal}
    IN  IF found # {} THEN YoutubePatterns(u)[Leftmost(found)]
        ELSE YoutubeFallback(u)

\* "URL path parsing fallback" of extract_reddit_id
RedditFallback(u) ==
    LET parsed == urlparse(u)
        path_parts == Split(parsed.path, "/")
    IN  IF parsed.raised THEN NoneVal
        ELSE IF Len(path_parts) >= 5 /\ path_parts[2] = "r" /\ path_parts[4] = "comments"
        THEN path_parts[5]
        ELSE NoneVal

extract_reddit_id(u) ==
    IF MatchReddit(u) # NoneVal THEN MatchReddit(u) ELSE RedditFallback(u)

\* "URL query parsing fallback" of extract_hn_id
HackerNewsFallback(u) ==
    LET parsed == urlparse(u)
    IN  IF parsed.raised THEN NoneVal
        ELSE IF parse_qs(parsed.query, "id") # <<>> THEN parse_qs(parsed.query, "id")[1]
        ELSE NoneVal

extract_hn_id(u) ==
    IF MatchHackerNews(u) # NoneVal THEN MatchHackerNews(u) ELSE HackerNewsFallback(u)

\* self.fragment_mappings
fragment_mappings ==
    [k \in {"reddit.com", "news.ycombinator.com", "youtube.com", "youtu.be"} |->
        IF k = "reddit.com" THEN "llm-fragments-reddit"
        ELSE IF k = "news.ycombinator.com" THEN "llm-hacker-news"
        ELSE "llm-fragments-youtube"]

\* "if post_id:" for Optional[str]
HasId(id) == id # NoneVal /\ id # ""

\* parsed.netloc.lower() without a leading "www."
Domain(netloc) ==
    IF StartsWith(Lower(netloc), "www.") THEN From(Lower(netloc), 5) ELSE Lower(netloc)

\* variant of detect_url_type: a YouTube URL without id falls back to the
\* whole URL, as the other platforms do
detect_url_type_youtube_fallback(u) ==
    LET parsed == urlparse(u)
        domain == Domain(parsed.netloc)
    IN  IF parsed.raised THEN None
        ELSE IF domain = "reddit.com" \/ EndsWith(domain, ".reddit.com")
        THEN IF HasId(extract_reddit_id(u))
             THEN Some(<<fragment_mappings["reddit.com"], "reddit:" \o extract_reddit_id(u)>>)
             ELSE Some(<<fragment_mappings["reddit.com"], "reddit:" \o u>>)
        ELSE IF domain = "youtube.com" \/ EndsWith(domain, ".youtube.com")
                \/ domain = "youtu.be"
        THEN IF HasId(extract_youtube_id(u))
             THEN Some(<<fragment_mappings["youtube.com"],
                         "youtube:" \o extract_youtube_id(u)>>)
             ELSE Some(<<fragment_mappings["youtube.com"], "youtube:" \o u>>)
        ELSE IF domain = "news.ycombinator.com"
        THEN IF HasId(extract_hn_id(u))
             THEN Some(<<fragment_mappings["news.ycombinator.com"],
                         "hn:" \o extract_hn_id(u)>>)
             ELSE Some(<<fragment_mappings["news.ycombinator.com"], "hn:" \o u>>)
        ELSE None

\* detect_url_type: None or Some(<<fragment_name, fragment_identifier>>)
detect_url_type(u) ==
    LET parsed == urlparse(u)
        domain == Domain(parsed.netloc)
    IN  IF parsed.raised THEN None
        ELSE IF domain = "reddit.com" \/ EndsWith(domain, ".reddit.com")
        THEN IF HasId(extract_reddit_id(u))
             THEN Some(<<fragment_mappings["reddit.com"], "reddit:" \o extract_reddit_id(u)>>)
             ELSE Some(<<fragment_mappings["reddit.com"], "reddit:" \o u>>)
        ELSE IF domain = "youtube.com" \/ EndsWith(domain, ".youtube.com")
        THEN IF HasId(extract_youtube_id(u))
             THEN Some(<<fragment_mappings["youtube.com"],
                         "youtube:" \o extract_youtube_id(u)>>)
             ELSE None
        ELSE IF domain = "youtu.be"
        THEN IF HasId(extract_youtube_id(u))
             THEN Some(<<fragment_mappings["youtu.be"], "youtube:" \o extract_youtube_id(u)>>)
             ELSE None
        ELSE IF domain = "news.ycombinator.com"
        THEN IF HasId(extract_hn_id(u))
             THEN Some(<<fragment_mappings["news.ycombinator.com"],
                         "hn:" \o extract_hn_id(u)>>)
             ELSE Some(<<fragment_mappings["news.ycombinator.com"], "hn:" \o u>>)
        ELSE None

(***************************************************************************)
(* The URLs routed in the model.                                           *)
(***************************************************************************)

\* "https://", "http://" or no scheme at all
Schemes == {"https://", "http://", ""}

VideoIds == {"dQw4w9WgXcQ", "a-b_c1d2e3F"}

\* hosts that serve youtube.com/watch and youtube.com/embed
YoutubeHosts == {"youtube.com", "www.youtube.com", "m.youtube.com"}

\* query parameters in front of, and behind, the v parameter
ParamsBefore == {"", "list=PL1&", "prev=abcdefghijk&"}

ParamsAfter == {"", "&t=42"}

WatchUrls ==
    {s \o h \o "/watch?" \o before \o "v=" \o id \o after :
        s \in Schemes, h \in YoutubeHosts, before \in ParamsBefore,
        id \in VideoIds, after \in ParamsAfter}

EmbedUrls == {s \o h \o "/embed/" \o id : s \in Schemes, h \in YoutubeHosts, id \in VideoIds}

ShortUrls == {s \o "youtu.be/" \o id : s \in Schemes, id \in VideoIds}

RedditHosts == {"reddit.com", "www.reddit.com", "old.reddit.com"}

PostIds == {"abc123", "67890"}

\* what follows the post id in the path
PostTails == {"/", "/a_post_title/"}

SubredditUrls ==
    {s \o h \o "/r/programming/comments/" \o id \o tail :
        s \in Schemes, h \in RedditHosts, id \in PostIds, tail \in PostTails}

CommentsUrls == {s \o h \o "/comments/" \o id : s \in Schemes, h \in RedditHosts, id \in PostIds}

ItemIds == {"12345678", "1", "007"}

ItemUrls ==
    {s \o www \o "news.ycombinator.com/item?id=" \o id \o after :
        s \in Schemes, www \in {"", "www."}, id \in ItemIds, after \in {"", "&p=2"}}

\* URLs that carry no id, hosts outside the three platforms, and text that
\* is no URL
OtherUrls ==
    {"https://www.google.com", "https://example.com/r/programming/comments/abc123/",
     "https://notreddit.com/comments/67890", "https://reddit.com.example.com/comments/1",
     "https://www.reddit.com/user/someone", "https://www.reddit.com",
     "https://www.reddit.com/r/programming/comments//",
     "https://reddit.com:443/r/programming/comments/abc123/a_post_title/",
     "https://WWW.Reddit.com/r/programming/comments/abc123/",
     "https://www.www.reddit.com/comments/67890",
     "https://youtu.be/", "https://youtu.be", "https://www.youtu.be/dQw4w9WgXcQ",
     "https://sub.youtu.be/dQw4w9WgXcQ",
     "https://youtu.be/short", "https://www.youtube.com/watch?v=",
     "https://www.youtube.com/watch?v=short", "https://www.youtube.com/watch",
     "https://www.youtube.com/channel/UCabcdefghijkl",
     "https://www.youtube.com/feed/subscriptions",
     "https://www.youtube.com/playlist?list=PL1234567890",
     "https://www.youtube.com/watch?prev=abcdefghijk",
     "https://www.youtube.com/v/dQw4w9WgXcQ?hl=en",
     "https://www.youtube.com:443/watch?v=dQw4w9WgXcQ",
     "https://news.ycombinator.com/item", "https://news.ycombinator.com/newest",
     "https://news.ycombinator.com/item?p=2&id=12345678",
     "https://news.ycombinator.com/item?id=", "HTTPS://NEWS.YCOMBINATOR.COM/item?id=1",
     "https://hn.news.ycombinator.com/item?id=12345678",
     "http://[::1/watch?v=dQw4w9WgXcQ", "http://[reddit.com/comments/67890",
     "mailto:someone@reddit.com", "", "notaurl"}

Urls ==
    WatchUrls \cup EmbedUrls \cup ShortUrls \cup SubredditUrls \cup CommentsUrls
    \cup ItemUrls \cup OtherUrls

\* a call of the router on the URL, and what it returned
UrlCall(op, ret) == [op |-> op, url |-> url, ret |-> ret]

InitUrl ==
    /\ url \in Urls
    /\ config = DefaultConfig
    /\ cache_timeout = 0
    /\ _cached_models = None
    /\ _cache_timestamp = 0
    /\ clock = 0
    /\ last = NoCall
    /\ snapshot_output = NoneVal
    /\ threads = NoThreads
    /\ services = ServicesObject
    /\ detected = None

ExtractYoutubeId ==
    /\ last' = UrlCall("extract_youtube_id", extract_youtube_id(url))
    /\ UNCHANGED <<detected, services, config, url, cache_timeout, _cached_models,
                   _cache_timestamp, clock,
                   snapshot_output, threads>>

ExtractRedditId ==
    /\ last' = UrlCall("extract_reddit_id", extract_reddit_id(url))
    /\ UNCHANGED <<detected, services, config, url, cache_timeout, _cached_models,
                   _cache_timestamp, clock,
                   snapshot_output, threads>>

ExtractHnId ==
    /\ last' = UrlCall("extract_hn_id", extract_hn_id(url))
    /\ UNCHANGED <<detected, services, config, url, cache_timeout, _cached_models,
                   _cache_timestamp, clock,
                   snapshot_output, threads>>

DetectUrlType ==
    /\ last' = UrlCall("detect_url_type", detect_url_type(url))
    /\ UNCHANGED <<detected, services, config, url, cache_timeout, _cached_models,
                   _cache_timestamp, clock,
                   snapshot_output, threads>>

NextUrl == ExtractYoutubeId \/ ExtractRedditId \/ ExtractHnId \/ DetectUrlType

SpecUrl == InitUrl /\ [][NextUrl]_vars

(***************************************************************************)
(* URLSummarizer.get_system_prompt and its prompt tables (SpecPrompt).      *)
(***************************************************************************)

\* self.system_prompts of URLSummarizer
system_prompts ==
       ("bullet" :>
        "Summarize this content in clear, comprehensive bullet points. Focus on the most important information, key arguments, and actionable insights. Include as many points as necessary to capture the essential content - don't limit yourself to a specific number.")
    @@ ("paragraph" :>
        "Provide a comprehensive paragraph summary that covers the main points, context, and significance of this content. Include relevant details that would help someone understand the full scope and implications of the information presented.")
    @@ ("detailed" :>
        "Provide an in-depth analysis and summary including: key points and arguments, relevant context and background, implications and significance, notable discussions or perspectives, and any actionable insights or takeaways. Structure your response to be thorough and informative.")
    @@ ("key-points" :>
        "Extract and present the most critical information as key points, focusing on facts, conclusions, and important details that someone would need to know. Prioritize accuracy and completeness over brevity.")
    @@ ("discussion" :>
        "Summarize the main discussion points, different perspectives presented, notable arguments or debates, and the overall sentiment or consensus if applicable. Include context about why this topic is significant.")
    @@ ("technical" :>
        "Provide a technical summary focusing on: specific details, methodologies, technical concepts, implementation details, and practical implications. Include relevant technical context and any limitations or considerations mentioned.")

\* self.platform_prompts["reddit"]
reddit_prompts ==
       ("bullet" :>
        "Summarize this Reddit post and discussion in comprehensive bullet points. Include: the main post content, top discussion points from comments, different perspectives or arguments presented, community sentiment, and any notable insights or conclusions. Capture the full scope of the discussion.")
    @@ ("paragraph" :>
        "Provide a comprehensive summary of this Reddit post and its discussion. Include the main post content, key discussion points from comments, different viewpoints presented, community reaction, and the overall significance or conclusions drawn from the conversation.")
    @@ ("detailed" :>
        "Provide an in-depth analysis of this Reddit post and discussion including: the original post content and context, major discussion themes and arguments, different perspectives and viewpoints, community sentiment and reactions, notable insights or expert opinions, and any actionable takeaways or conclusions.")
    @@ ("discussion" :>
        "Focus on the Reddit discussion dynamics: main arguments and counterarguments, different user perspectives, community consensus or disagreements, notable expert contributions, and the overall direction and quality of the conversation.")

\* self.platform_prompts["hackernews"]
hackernews_prompts ==
       ("bullet" :>
        "Summarize this Hacker News post and discussion in comprehensive bullet points. Include: the main article/post content, key technical discussions, business implications, community insights, expert opinions, and practical takeaways. Focus on the technical and professional aspects.")
    @@ ("paragraph" :>
        "Provide a comprehensive summary of this Hacker News post and discussion. Include the main content, key technical points discussed, business or industry implications, notable expert opinions, and practical insights that would be valuable to developers or professionals.")
    @@ ("detailed" :>
        "Provide an in-depth analysis of this Hacker News post and discussion including: the original content and context, technical details and implications, business or industry significance, expert opinions and insights, practical applications or takeaways, and any concerns or limitations discussed.")
    @@ ("technical" :>
        "Focus on the technical aspects: specific technologies, methodologies, implementation details, performance considerations, technical challenges or solutions discussed, and practical implications for developers or engineers.")

\* self.platform_prompts["youtube"]
youtube_prompts ==
       ("bullet" :>
        "Summarize this YouTube video content in comprehensive bullet points. Include: main topics covered, key information presented, important insights or conclusions, practical advice or takeaways, and any notable demonstrations or examples. Capture the full educational or entertainment value.")
    @@ ("paragraph" :>
        "Provide a comprehensive summary of this YouTube video content. Include the main topics discussed, key information and insights presented, practical advice or demonstrations, and the overall value or significance of the content for viewers.")
    @@ ("detailed" :>
        "Provide an in-depth analysis of this YouTube video including: main topics and themes, detailed content breakdown, key insights and conclusions, practical advice or tutorials, demonstrations or examples shown, and the overall educational or entertainment value.")
    @@ ("technical" :>
        "Focus on any technical content: specific concepts explained, methodologies demonstrated, technical details provided, practical implementations shown, and technical insights or advice given.")

\* self.platform_prompts
platform_prompts ==
       ("reddit" :> reddit_prompts)
    @@ ("hackernews" :> hackernews_prompts)
    @@ ("youtube" :> youtube_prompts)

\* variant of get_system_prompt: the platform table is consulted before the
\* override
get_system_prompt_platform_first(cfg, platform) ==
    IF /\ Truthy(platform)
       /\ platform \in DOMAIN platform_prompts
       /\ cfg.format \in DOMAIN platform_prompts[platform]
    THEN platform_prompts[platform][cfg.format]
    ELSE IF Truthy(cfg.system_prompt) THEN cfg.system_prompt
    ELSE IF cfg.format \in DOMAIN system_prompts THEN system_prompts[cfg.format]
    ELSE system_prompts["bullet"]

\* get_system_prompt(platform) of an object whose self.config is cfg
get_system_prompt(cfg, platform) ==
    IF Truthy(cfg.system_prompt) THEN cfg.system_prompt
    ELSE IF /\ Truthy(platform)
            /\ platform \in DOMAIN platform_prompts
            /\ cfg.format \in DOMAIN platform_prompts[platform]
    THEN platform_prompts[platform][cfg.format]
    ELSE IF cfg.format \in DOMAIN system_prompts THEN system_prompts[cfg.format]
    ELSE system_prompts["bullet"]

\* formats configured: the six of system_prompts and two unrecognised ones
Formats ==
    {"bullet", "paragraph", "detailed", "key-points", "discussion", "technical",
     "haiku", ""}

\* system_prompt of the configuration: none, empty, or a text
Overrides == {NoneVal, "", "Answer in one sentence."}

\* platform arguments: none, the three platforms, and an unknown one
Platforms == {NoneVal, "reddit", "hackernews", "youtube", "vimeo"}

InitPrompt ==
    /\ config \in {SummaryConfig(f, o) : f \in Formats, o \in Overrides}
    /\ url = NoneVal
    /\ cache_timeout = 0
    /\ _cached_models = None
    /\ _cache_timestamp = 0
    /\ clock = 0
    /\ last = NoCall
    /\ snapshot_output = NoneVal
    /\ threads = NoThreads
    /\ services = ServicesObject
    /\ detected = None

GetSystemPrompt(platform) ==
    /\ last' = [op |-> "get_system_prompt", platform |-> platform,
                ret |-> get_system_prompt(config, platform)]
    /\ UNCHANGED <<detected, services, config, url, cache_timeout, _cached_models,
                   _cache_timestamp, clock,
                   snapshot_output, threads>>

NextPrompt == \E platform \in Platforms : GetSystemPrompt(platform)

SpecPrompt == InitPrompt /\ [][NextPrompt]_vars

(***************************************************************************)
(* The summary entry points (SpecSummary):                                 *)
(* LLMSummaryService.generate_summary, URLSummarizer.summarize_url and     *)
(* URLProcessor.process_url.                                               *)
(***************************************************************************)

\* config.settings: the defaults of SummaryConfig.model and .timeout
settings == [LLM_DEFAULT_MODEL |-> "llama3.2:3b", LLM_TIMEOUT |-> 120]

\* LLMSummaryService.system_prompts
service_system_prompts ==
    "bullet" :> "Summarize this content concisely in 3-5 bullet points."
    @@ "paragraph" :> "Provide a concise paragraph summary of this content."
    @@ "detailed" :> "Provide a detailed summary including key points, context, and implications."

\* LLMSummaryService.get_system_prompt() of an object whose self.config is
\* cfg: it takes no platform
service_get_system_prompt(cfg) ==
    IF Truthy(cfg.system_prompt) THEN cfg.system_prompt
    ELSE IF cfg.format \in DOMAIN service_system_prompts
    THEN service_system_prompts[cfg.format]
    ELSE service_system_prompts["bullet"]

\* list(self.fragment_mappings.keys())
supported_sites == <<"reddit.com", "news.ycombinator.com", "youtube.com", "youtu.be">>

\* what subprocess.run(cmd, ...) does: the process exits, the timeout
\* expires (TimeoutExpired carries the output captured so far), the
\* executable is missing (FileNotFoundError), or another exception
RunResult(kind, returncode, stdout, stderr) ==
    [kind |-> kind, returncode |-> returncode, stdout |-> stdout, stderr |-> stderr]

RunOutcomes ==
    {RunResult("exit", 0, "  - point one\n- point two\n\n", ""),
     RunResult("exit", 1, "- point one", "Error: Unknown fragment loader"),
     RunResult("timeout", 0, "- point one", ""),
     RunResult("not found", 0, "", "[Errno 2] No such file or directory: 'llm'"),
     RunResult("error", 0, "", "[Errno 13] Permission denied: 'llm'")}

\* the process is not started
NoRun == RunResult("not run", 0, "", "")

SummaryRecord(url_id, content, model_used, format_type, fragment_used) ==
    [url_id |-> url_id, content |-> content, model_used |-> model_used,
     format_type |-> format_type, fragment_used |-> fragment_used]

\* the command both entry points build
Command(model, fragment_identifier, system_prompt) ==
    <<"llm", "-m", model, "-f", fragment_identifier, "--system", system_prompt>>

\* the value of one entry point call: what it returned, the command it
\* ran (None without one), the number of processes started, whether an
\* exception left the call
Summarized(ret, cmd, runs) == [ret |-> ret, cmd |-> cmd, runs |-> runs, raised |-> FALSE]

\* variant of GenerateSummaryOf: a timed-out run is started once more
GenerateSummaryOf_retry_on_timeout(cfg, fragment_info, outcome) ==
    IF fragment_info = None
    THEN Summarized(<<FALSE, None,
                      "No matching fragment found. Supported sites: "
                      \o Join(", ", supported_sites)>>, None, 0)
    ELSE LET fragment_name == ValueOf(fragment_info)[1]
             cmd == Command(settings.LLM_DEFAULT_MODEL, ValueOf(fragment_info)[2],
                            service_get_system_prompt(cfg))
         IN  IF outcome.kind = "exit" /\ outcome.returncode = 0
             THEN Summarized(<<TRUE,
                               Some(SummaryRecord(0, Strip(outcome.stdout),
                                                  settings.LLM_DEFAULT_MODEL,
                                                  cfg.format, fragment_name)),
                               NoneVal>>, Some(cmd), 1)
             ELSE IF outcome.kind = "exit"
             THEN Summarized(<<FALSE, None, "LLM command failed: " \o outcome.stderr>>,
                             Some(cmd), 1)
             ELSE IF outcome.kind = "timeout"
             THEN Summarized(<<FALSE, None,
                               "Request timed out after "
                               \o ToString(settings.LLM_TIMEOUT) \o " seconds">>,
                             Some(cmd), 2)
             ELSE IF outcome.kind = "not found"
             THEN Summarized(<<FALSE, None,
                               "'llm' command not found. Install with: uv add llm">>,
                             Some(cmd), 1)
             ELSE Summarized(<<FALSE, None, "Unexpected error: " \o outcome.stderr>>,
                             Some(cmd), 1)

\* variant of GenerateSummaryOf: the message of a failed run carries the
\* standard output
GenerateSummaryOf_stdout_in_message(cfg, fragment_info, outcome) ==
    IF fragment_info = None
    THEN Summarized(<<FALSE, None,
                      "No matching fragment found. Supported sites: "
                      \o Join(", ", supported_sites)>>, None, 0)
    ELSE LET fragment_name == ValueOf(fragment_info)[1]
             cmd == Command(settings.LLM_DEFAULT_MODEL, ValueOf(fragment_info)[2],
                            service_get_system_prompt(cfg))
         IN  IF outcome.kind = "exit" /\ outcome.returncode = 0
             THEN Summarized(<<TRUE,
                               Some(SummaryRecord(0, Strip(outcome.stdout),
                                                  settings.LLM_DEFAULT_MODEL,
                                                  cfg.format, fragment_name)),
                               NoneVal>>, Some(cmd), 1)
             ELSE IF outcome.kind = "exit"
             THEN Summarized(<<FALSE, None, "LLM command failed: " \o outcome.stdout>>,
                             Some(cmd), 1)
             ELSE IF outcome.kind = "timeout"
             THEN Summarized(<<FALSE, None,
                               "Request timed out after "
                               \o ToString(settings.LLM_TIMEOUT) \o " seconds">>,
                             Some(cmd), 1)
             ELSE IF outcome.kind = "not found"
             THEN Summarized(<<FALSE, None,
                               "'llm' command not found. Install with: uv add llm">>,
                             Some(cmd), 1)
             ELSE Summarized(<<FALSE, None, "Unexpected error: " \o outcome.stderr>>,
                             Some(cmd), 1)

\* generate_summary after detect_url_type returned fragment_info, when the
\* process it starts does outcome: (success, summary_record, error_message)
GenerateSummaryOf(cfg, fragment_info, outcome) ==
    IF fragment_info = None
    THEN Summarized(<<FALSE, None,
                      "No matching fragment found. Supported sites: "
                      \o Join(", ", supported_sites)>>, None, 0)
    ELSE LET fragment_name == ValueOf(fragment_info)[1]
             cmd == Command(settings.LLM_DEFAULT_MODEL, ValueOf(fragment_info)[2],
                            service_get_system_prompt(cfg))
         IN  IF outcome.kind = "exit" /\ outcome.returncode = 0
             THEN Summarized(<<TRUE,
                               Some(SummaryRecord(0, Strip(outcome.stdout),
                                                  settings.LLM_DEFAULT_MODEL,
                                                  cfg.format, fragment_name)),
                               NoneVal>>, Some(cmd), 1)
             ELSE IF outcome.kind = "exit"
             THEN Summarized(<<FALSE, None, "LLM command failed: " \o outcome.stderr>>,
                             Some(cmd), 1)
             ELSE IF outcome.kind = "timeout"
             THEN Summarized(<<FALSE, None,
                               "Request timed out after "
                               \o ToString(settings.LLM_TIMEOUT) \o " seconds">>,
                             Some(cmd), 1)
             ELSE IF outcome.kind = "not found"
             THEN Summarized(<<FALSE, None,
                               "'llm' command not found. Install with: uv add llm">>,
                             Some(cmd), 1)
             ELSE Summarized(<<FALSE, None, "Unexpected error: " \o outcome.stderr>>,
                             Some(cmd), 1)

\* LLMSummaryService.generate_summary(url)
generate_summary(cfg, u, outcome) == GenerateSummaryOf(cfg, detect_url_type(u), outcome)

\* "Determine platform for prompt selection"
PlatformOf(fragment_name) ==
    IF Contains(fragment_name, "reddit") THEN "reddit"
    ELSE IF Contains(fragment_name, "hacker-news") THEN "hackernews"
    ELSE IF Contains(fragment_name, "youtube") THEN "youtube"
    ELSE NoneVal

\* summarize_url after detect_url_type returned fragment_info: True or
\* False; the texts it prints are left out
SummarizeUrlOf(cfg, fragment_info, outcome) ==
    IF fragment_info = None THEN Summarized(FALSE, None, 0)
    ELSE Summarized(outcome.kind = "exit" /\ outcome.returncode = 0,
                    Some(Command(settings.LLM_DEFAULT_MODEL, ValueOf(fragment_info)[2],
                                 get_system_prompt(cfg,
                                     PlatformOf(ValueOf(fragment_info)[1])))),
                    1)

\* URLSummarizer.summarize_url(url)
summarize_url(cfg, u, outcome) == SummarizeUrlOf(cfg, detect_url_type(u), outcome)

URLRecord(u, title) == [url |-> u, title |-> title]

\* what the page request of the extractor gives: a page with a title, or
\* an exception (connection error, HTTP error status)
PageOutcomes == {[kind |-> "page", title |-> "A title"], [kind |-> "error", title |-> NoneVal]}

\* OpenGraphExtractor.extract(url): the exception of a failed request is
\* caught and the record holds the URL alone
extract(u, page) ==
    IF page.kind = "page" THEN URLRecord(u, page.title) ELSE URLRecord(u, NoneVal)

\* one call made by process_url: the callee and its argument
Invocation(callee, u) == [callee |-> callee, url |-> u]

\* variant of ProcessUrlOf: the record of the URL is dropped when the
\* summary failed
ProcessUrlOf_record_on_success(u, page, summary) ==
    [ret |-> <<IF summary.ret[1] THEN Some(extract(u, page)) ELSE None,
               summary.ret[2], summary.ret[3]>>,
     calls |-> <<Invocation("og_extractor.extract", u),
                 Invocation("summary_service.generate_summary", u)>>,
     runs |-> summary.runs, raised |-> summary.raised]

\* process_url when generate_summary(url) gives summary:
\* (url_record, summary_record, error_msg)
ProcessUrlOf(u, page, summary) ==
    [ret |-> <<Some(extract(u, page)), summary.ret[2], summary.ret[3]>>,
     calls |-> <<Invocation("og_extractor.extract", u),
                 Invocation("summary_service.generate_summary", u)>>,
     runs |-> summary.runs, raised |-> summary.raised]

\* URLProcessor.process_url(url)
process_url(cfg, u, page, outcome) == ProcessUrlOf(u, page, generate_summary(cfg, u, outcome))

\* the URLs summarised
SummaryUrls ==
    {"https://youtu.be/dQw4w9WgXcQ",
     "https://www.reddit.com/r/programming/comments/abc123/a_post_title/",
     "https://www.reddit.com/user/someone",
     "https://news.ycombinator.com/item?id=12345678",
     "https://www.youtube.com/playlist?list=PL1234567890",
     "https://example.com"}

\* detect_url_type of every URL summarised, computed once
DetectedType == [u \in SummaryUrls |-> detect_url_type(u)]

\* the configurations of the objects
SummaryConfigs ==
    {SummaryConfig(f, o) : f \in {"bullet", "detailed", "technical", "key-points", "haiku"},
                           o \in {NoneVal, "Answer in one sentence."}}

InitSummary ==
    /\ config \in SummaryConfigs
    /\ url \in SummaryUrls
    /\ cache_timeout = 0
    /\ _cached_models = None
    /\ _cache_timestamp = 0
    /\ clock = 0
    /\ last = NoCall
    /\ snapshot_output = NoneVal
    /\ threads = NoThreads
    /\ services = ServicesObject
    /\ detected = DetectedType[url]

\* a call of an entry point on the URL and what it did
SummaryCall(op, outcome, page, s) ==
    [op |-> op, url |-> url, outcome |-> outcome, page |-> page, ret |-> s.ret,
     cmd |-> IF "cmd" \in DOMAIN s THEN s.cmd ELSE None,
     calls |-> IF "calls" \in DOMAIN s THEN s.calls ELSE <<>>,
     runs |-> s.runs, raised |-> s.raised]

\* the process does outcome when a call that found fragment_info starts it
MayRun(fragment_info, outcome) ==
    IF fragment_info = None THEN outcome = NoRun ELSE outcome \in RunOutcomes

GenerateSummary(outcome) ==
    \E s \in {GenerateSummaryOf(config, detected, outcome)} :
        /\ MayRun(detected, outcome)
        /\ last' = SummaryCall("generate_summary", outcome, NoneVal, s)
        /\ UNCHANGED <<detected, services, config, url, cache_timeout,
                       _cached_models, _cache_timestamp, clock, snapshot_output, threads>>

SummarizeUrl(outcome) ==
    \E s \in {SummarizeUrlOf(config, detected, outcome)} :
        /\ MayRun(detected, outcome)
        /\ last' = SummaryCall("summarize_url", outcome, NoneVal, s)
        /\ UNCHANGED <<detected, services, config, url, cache_timeout,
                       _cached_models, _cache_timestamp, clock, snapshot_output, threads>>

ProcessUrl(page, outcome) ==
    \E summary \in {GenerateSummaryOf(config, detected, outcome)} :
    \E s \in {ProcessUrlOf(url, page, summary)} :
        /\ MayRun(detected, outcome)
        /\ last' = SummaryCall("process_url", outcome, page, s)
        /\ UNCHANGED <<detected, services, config, url, cache_timeout,
                       _cached_models, _cache_timestamp, clock, snapshot_output, threads>>

NextSummary ==
    \/ \E outcome \in RunOutcomes \cup {NoRun} : GenerateSummary(outcome)
    \/ \E outcome \in RunOutcomes \cup {NoRun} : SummarizeUrl(outcome)
    \/ \E page \in PageOutcomes, outcome \in RunOutcomes \cup {NoRun} :
            ProcessUrl(page, outcome)

SpecSummary == InitSummary /\ [][NextSummary]_vars

(***************************************************************************)
(* Properties.                                                             *)
(***************************************************************************)

\* the keys listed under "Specific model bonuses" in priority_rules
ModelBonusKeys ==
    {"llama3.2", "llama3.1", "mistral", "codellama", "llama2", "gpt-4o",
     "gpt-4o-mini", "gpt-4", "gpt-3.5-turbo", "gemini-2.0-flash",
     "gemini-1.5-pro-latest"}

\* the weight of the longest bonus key occurring in the name, 0 without one
LongestKeyBonus(model_name) ==
    LET keys == {k \in ModelBonusKeys : Contains(model_name, k)}
    IN  IF keys = {} THEN 0
        ELSE RulesGet(CHOOSE k \in keys : \A j \in keys : Len(j) <= Len(k), 0)

\* C1: _calculate_priority returns base(provider) (100 for an unknown
\* provider) + the chat bonus if isChat + the experimental penalty if
\* isExperimental + the weight of the longest matching bonus key, counted
\* exactly once.
C1_SingleLongestBonus ==
    last.op = "_calculate_priority" =>
        last.ret = RulesGet(last.provider, 100)
                   + (IF last.is_chat THEN -5 ELSE 0)
                   + (IF last.is_experimental THEN 50 ELSE 0)
                   + LongestKeyBonus(last.model_name)

(***************************************************************************)
(* Properties of the discovery cache (Spec).                               *)
(***************************************************************************)

\* a step that is a call of a public method (Tick alone moves the clock)
CallStep == clock' = clock

\* a call of discover_models itself
DiscoverStep == CallStep /\ last'.op = "discover_models"

\* the cache state spec.md calls Fresh, before the step
Fresh == _cached_models # None /\ clock - _cache_timestamp < cache_timeout

\* C2: when retrieval from the model-listing tool fails (tool missing,
\* non-zero exit, timeout), discover_models returns the static fallback
\* catalog and leaves the cached snapshot and the cache timestamp as they
\* were before the call; the fallback catalog is never written into the
\* cache.
C2_FailureKeepsCache ==
    /\ [](_cached_models # Some(fallback_models))
    /\ [][(DiscoverStep /\ last'.runs = 1 /\ ToolFailed(last'.outcome)) =>
            /\ last'.ret = fallback_models
            /\ _cached_models' = _cached_models
            /\ _cache_timestamp' = _cache_timestamp]_vars

\* a forced refresh failed while a Fresh snapshot was cached
C2_Witness ==
    /\ last.op = "discover_models"
    /\ last.force_refresh
    /\ ToolFailed(last.outcome)
    /\ last.ret = fallback_models
    /\ _cached_models # None
    /\ clock - _cache_timestamp < cache_timeout

\* C3: discover_models(force_refresh=False) returns the cached snapshot,
\* unchanged and without starting the tool, exactly when a snapshot exists
\* and its age is strictly less than cache_timeout; in every other case
\* (age >= cache_timeout, no snapshot, force_refresh) it runs the tool, so
\* with cache_timeout = 0 every call does.
C3_CacheServedIffFresh ==
    [][DiscoverStep =>
        /\ IF Fresh /\ ~last'.force_refresh
           THEN /\ Some(last'.ret) = _cached_models
                /\ last'.runs = 0
                /\ _cached_models' = _cached_models
                /\ _cache_timestamp' = _cache_timestamp
           ELSE last'.runs = 1
        /\ (cache_timeout = 0 => last'.runs = 1)]_vars

\* a call served from a snapshot of age 1 under cache_timeout 2
C3_Witness ==
    /\ last.op = "discover_models"
    /\ last.how = "cache"
    /\ ~last.force_refresh
    /\ Some(last.ret) = _cached_models
    /\ clock - _cache_timestamp = 1

\* the call before the step ran the tool, and the tool failed
AfterFailedRefresh == last.how = "fallback" /\ ToolFailed(last.outcome)

\* C4 as stated: a discover() call made immediately after a failed refresh
\* returns the fallback catalog.
C4_AfterFailureReturnsFallback ==
    [][(DiscoverStep /\ AfterFailedRefresh) => last'.ret = fallback_models]_vars

\* C4 as amended: a discover() call made immediately after a failed refresh
\* returns the fallback catalog when its own retrieval fails or yields no
\* output; it returns the cached snapshot when the cache is Fresh and no
\* refresh is forced, and the newly retrieved snapshot when its own
\* retrieval succeeds.
C4_AfterFailureByOwnRetrieval ==
    [][(DiscoverStep /\ AfterFailedRefresh) =>
        IF Fresh /\ ~last'.force_refresh
        THEN Some(last'.ret) = _cached_models /\ last'.ret # fallback_models
        ELSE IF ToolFailed(last'.outcome) \/ last'.outcome.stdout = ""
        THEN last'.ret = fallback_models
        ELSE /\ last'.ret = FilteredOutput[last'.outcome.stdout]
             /\ last'.ret # fallback_models]_vars

\* a call right after a failed refresh whose own retrieval failed too
C4_Witness ==
    /\ last.op = "discover_models"
    /\ last.after_failure
    /\ last.runs = 1
    /\ ToolFailed(last.outcome)
    /\ last.ret = fallback_models

\* the records of a successful refresh: all parsed from its output
OnlyFromOutput(models, output) ==
    /\ Elements(models) \subseteq Elements(ParsedOutput[output])
    /\ Len(models) <= Len(ParsedOutput[output])
    /\ Elements(models) \cap Elements(fallback_models) = {}

SuccessfulRefresh == DiscoverStep /\ last'.how = "fresh"

\* C5 as stated: after a successful refresh the cached snapshot and the
\* returned catalog consist only of records parsed from that retrieval's
\* output, and the cache is Fresh.
C5_RefreshReplacesWhollyAndFresh ==
    [][SuccessfulRefresh =>
        /\ _cached_models' = Some(last'.ret)
        /\ OnlyFromOutput(last'.ret, last'.outcome.stdout)
        /\ clock' - _cache_timestamp' < cache_timeout']_vars

\* C5 as amended: after a successful refresh, whatever calls preceded it,
\* the cached snapshot and the returned catalog consist only of records
\* parsed from that retrieval's output, and the cache timestamp is the time
\* of that call, so that the cache is Fresh whenever cache_timeout > 0.
C5_RefreshReplacesWholly ==
    [][SuccessfulRefresh =>
        /\ _cached_models' = Some(last'.ret)
        /\ snapshot_output' = last'.outcome.stdout
        /\ OnlyFromOutput(last'.ret, last'.outcome.stdout)
        /\ _cache_timestamp' = clock'
        /\ (cache_timeout' > 0 => clock' - _cache_timestamp' < cache_timeout')]_vars

\* a successful refresh right after a failed one, over an older snapshot
C5_Witness ==
    /\ last.op = "discover_models"
    /\ last.how = "fresh"
    /\ last.after_failure
    /\ last.force_refresh
    /\ Len(last.ret) > 0
    /\ _cached_models = Some(last.ret)
    /\ _cache_timestamp = clock
    /\ cache_timeout > 0

\* the catalog the last call obtained from discover_models
Returned == last.op \in {"discover_models", "get_model_by_name"}

IsPrefix(a, b) == Len(a) <= Len(b) /\ SubSeq(b, 1, Len(a)) = a

\* the models of one priority, in list order
WithPriority(models, p) ==
    LET Same(m) == m.priority = p
    IN  SelectSeq(models, Same)

SortedAscending(models) ==
    \A i, j \in 1..Len(models) : i < j => models[i].priority <= models[j].priority

\* models of equal priority appear in the order they have in `discovered`
TiesInDiscoveryOrder(models, discovered) ==
    \A p \in {models[i].priority : i \in 1..Len(models)} :
        IsPrefix(WithPriority(models, p), WithPriority(discovered, p))

\* the models in the order the parser emitted them, or the static list
DiscoveryOrder ==
    IF last.how = "fallback" THEN fallback_models
    ELSE FilterModels(ParsedOutput[snapshot_output])

\* C7: every catalog returned by discover_models (served from cache,
\* freshly retrieved, or the fallback) is sorted ascending by priority, and
\* models of equal priority appear in their original discovery order.
C7_SortedStable ==
    Returned =>
        /\ SortedAscending(last.models)
        /\ TiesInDiscoveryOrder(last.models, DiscoveryOrder)

\* a catalog served from the cache in which two different models tie
C7_Witness ==
    /\ last.op = "discover_models"
    /\ last.how = "cache"
    /\ \E i, j \in 1..Len(last.models) :
          /\ i < j
          /\ last.models[i].priority = last.models[j].priority
          /\ last.models[i].name # last.models[j].name
    /\ \E i \in 1..(Len(ParsedOutput[snapshot_output]) - 1) :
          ParsedOutput[snapshot_output][i].priority
              > ParsedOutput[snapshot_output][i + 1].priority

\* C8: every snapshot produced by a successful retrieval contains no
\* experimental model, no model whose lower-cased name contains
\* 1106-preview, 0125-preview, 32k, instruct, davinci or curie, no model
\* whose name contains audio, and at most 15 models, which are the 15
\* lowest-priority-value models that survive the filter.
C8_SnapshotFiltered ==
    _cached_models # None =>
        LET snapshot == ValueOf(_cached_models)
            survivors == FilterModels(ParsedOutput[snapshot_output])
        IN  /\ \A i \in 1..Len(snapshot) :
                  /\ ~snapshot[i].is_experimental
                  /\ \A kw \in {"1106-preview", "0125-preview", "32k", "instruct",
                                "davinci", "curie"} :
                        ~Contains(Lower(snapshot[i].name), kw)
                  /\ ~Contains(snapshot[i].name, "audio")
            /\ Len(snapshot) <= 15
            /\ Len(snapshot) = IF Len(survivors) < 15 THEN Len(survivors) ELSE 15
            /\ Elements(snapshot) \subseteq Elements(survivors)
            /\ \A m \in Elements(survivors) \ Elements(snapshot) :
                  \A i \in 1..Len(snapshot) : snapshot[i].priority <= m.priority

\* a snapshot cut to 15 models from a listing with more usable models and
\* with experimental, deprecated and audio models
C8_Witness ==
    /\ _cached_models # None
    /\ Len(ValueOf(_cached_models)) = 15
    /\ Len(FilterModels(ParsedOutput[snapshot_output])) > 15
    /\ \E i \in 1..Len(ParsedOutput[snapshot_output]) :
          ParsedOutput[snapshot_output][i].is_experimental
    /\ \E i \in 1..Len(ParsedOutput[snapshot_output]) :
          Contains(ParsedOutput[snapshot_output][i].name, "instruct")
    /\ \E i \in 1..Len(ParsedOutput[snapshot_output]) :
          Contains(ParsedOutput[snapshot_output][i].name, "audio")

\* C9: within every catalog returned by discover_models, model names are
\* unique.
C9_UniqueNames ==
    Returned =>
        \A i, j \in 1..Len(last.models) :
            last.models[i].name = last.models[j].name => i = j

\* C10: get_model_by_name(name) returns the model whose name equals the
\* argument when the catalog has one, even if another model lists the
\* argument among its aliases; only when no model has that name does it
\* return a model whose aliases contain it; otherwise it returns none.
C10_ExactNameFirst ==
    last.op = "get_model_by_name" =>
        LET named == {m \in Elements(last.models) : m.name = last.name}
            aliased == {m \in Elements(last.models) : InList(last.name, m.aliases)}
        IN  IF named # {} THEN last.ret # None /\ ValueOf(last.ret).name = last.name
            ELSE IF aliased # {} THEN last.ret # None /\ ValueOf(last.ret) \in aliased
            ELSE last.ret = None

(***************************************************************************)
(* Properties of the catalog queries (SpecCatalog).                        *)
(***************************************************************************)

\* a model of models is named, or has the alias, name
Registered(models, name) ==
    \E m \in Elements(models) : m.name = name \/ InList(name, m.aliases)

\* C11: validate_model(name) returns (true, none) exactly when
\* get_model_by_name(name) finds a model in the current discovery result,
\* in particular when name is a registered alias; otherwise it returns
\* false together with a suggestion message.
C11_ValidIffFound ==
    last.op = "validate_model" =>
        IF Registered(last.calls[1].ret, last.name)
        THEN last.ret = <<TRUE, NoneVal>>
        ELSE /\ last.ret[1] = FALSE
             /\ last.ret[2] # NoneVal
             /\ StartsWith(last.ret[2], "Model '" \o last.name \o "' not found. Try: ")

\* "4t" is validated while it is an alias, and not a name, of a discovered
\* model
C11_Witness ==
    /\ last.op = "validate_model"
    /\ last.name = "4t"
    /\ last.calls[1].how = "fresh"
    /\ \E m \in Elements(last.calls[1].ret) : m.name # "4t" /\ InList("4t", m.aliases)
    /\ last.ret = <<TRUE, NoneVal>>

\* the positions of models, among the first n, whose name or one of whose
\* aliases contains name, ignoring case
Matching(models, n, name) ==
    {i \in 1..Len(models) :
        /\ i <= n
        /\ \/ Contains(Lowered[models[i].name], Lowered[name])
           \/ \E a \in Elements(models[i].aliases) : Contains(Lowered[a], Lowered[name])}

\* C12: when validate_model(name) fails, the suggestions are the names of
\* those among the top 5 discovered models whose name or one of whose
\* aliases contains name case-insensitively; only if there is none are they
\* the names of the top 3 recommended models; the message is
\* "Model '<name>' not found. Try: " followed by the suggestions joined
\* with ", ".
C12_Suggestions ==
    (last.op = "validate_model" /\ ~last.ret[1]) =>
        LET discovered == last.calls[2].ret
            hits == Matching(discovered, 5, last.name)
            suggestions ==
                IF hits # {}
                THEN Names(SelectSeq([i \in 1..Len(discovered) |->
                                        IF i \in hits THEN discovered[i]
                                        ELSE [name |-> NoneVal]],
                                     LAMBDA m : m.name # NoneVal))
                ELSE Names(Take(Take(last.calls[3].ret, 6), 3))
        IN  /\ hits = {} <=> Len(last.calls) = 3
            /\ last.ret[2] = "Model '" \o last.name \o "' not found. Try: "
                             \o Join(", ", suggestions)

\* the only model that contains the name is below the top 5, and the
\* recommended models are suggested instead
C12_Witness ==
    /\ last.op = "validate_model"
    /\ ~last.ret[1]
    /\ Len(last.calls) = 3
    /\ Matching(last.calls[2].ret, Len(last.calls[2].ret), last.name) # {}
    /\ Len(last.calls[3].ret) > 3

\* the category the first matching rule gives a model
FirstRule(m) ==
    IF m.provider = "Ollama" THEN "recommended"
    ELSE IF \E kw \in {"mini", "3.5", "flash-8b", "nano"} : Contains(Lowered[m.name], kw)
    THEN "budget"
    ELSE IF ~StartsWith(m.provider, "OpenAI") THEN "alternative"
    ELSE "recommended"

\* C13: get_models_by_category assigns every model of the discovery result
\* to exactly one of recommended, budget, alternative by the first matching
\* rule (Ollama provider -> recommended; name contains mini, 3.5, flash-8b
\* or nano -> budget; provider outside the OpenAI family -> alternative;
\* otherwise recommended), no model appears in two categories, each
\* category keeps catalog order and holds at most 5 models (the first 5
\* assigned to it).
C13_Categories ==
    last.op = "get_models_by_category" =>
        LET models == last.calls[1].ret
        IN  /\ DOMAIN last.ret = {"recommended", "budget", "alternative"}
            /\ \A c \in DOMAIN last.ret :
                  /\ last.ret[c] = Take(SelectSeq(models, LAMBDA m : FirstRule(m) = c), 5)
                  /\ Len(last.ret[c]) <= 5
            /\ \A c1, c2 \in DOMAIN last.ret :
                  c1 # c2 => Elements(last.ret[c1]) \cap Elements(last.ret[c2]) = {}

\* more than 5 models are assigned to one category, which is cut to 5, and
\* the budget category is filled
C13_Witness ==
    /\ last.op = "get_models_by_category"
    /\ \E c \in DOMAIN last.ret :
          /\ Len(last.ret[c]) = 5
          /\ Cardinality({i \in 1..Len(last.calls[1].ret) :
                             FirstRule(last.calls[1].ret[i]) = c}) > 5
    /\ \E m \in Elements(last.calls[1].ret) : FirstRule(m) = "budget"

(***************************************************************************)
(* Properties of the URL router (SpecUrl).                                 *)
(***************************************************************************)

\* the host of a URL: its network location without user information and
\* port, lower-cased, one leading "www." removed
Host(u) ==
    LET netloc == urlparse(u).netloc
        server == IF Contains(netloc, "@")
                  THEN From(netloc, Find(netloc, "@") + 1) ELSE netloc
        name == SplitOnce(server, ":")[1]
    IN  IF StartsWith(Lower(name), "www.") THEN From(Lower(name), 5) ELSE Lower(name)

\* the fragment name of the match returned, NoneVal when none is returned
RoutedTo == IF last.ret = None THEN NoneVal ELSE ValueOf(last.ret)[1]

\* the fragment identifier of the match returned
Fragment == ValueOf(last.ret)[2]

\* the URL parses
Parses(u) == ~urlparse(u).raised

\* C14: detect_url_type classifies on the lower-cased host with one leading
\* "www." removed: Reddit iff the host is reddit.com or ends with
\* ".reddit.com"; YouTube iff the host is youtube.com, ends with
\* ".youtube.com" or is exactly youtu.be (a YouTube URL is routed to the
\* YouTube fragment or, without id, to none); Hacker News iff the host is
\* exactly news.ycombinator.com; every other host, including the empty host
\* of a URL without scheme, yields none.
C14_HostClassification ==
    (last.op = "detect_url_type" /\ Parses(url)) =>
        LET host == Host(url)
        IN  IF host = "reddit.com" \/ EndsWith(host, ".reddit.com")
            THEN RoutedTo = "llm-fragments-reddit"
            ELSE IF host = "youtube.com" \/ EndsWith(host, ".youtube.com")
                    \/ host = "youtu.be"
            THEN RoutedTo \in {"llm-fragments-youtube", NoneVal}
            ELSE IF host = "news.ycombinator.com"
            THEN RoutedTo = "llm-hacker-news"
            ELSE RoutedTo = NoneVal

\* the platform whose branch of the router the URL takes
Platform(u) ==
    LET domain == Domain(urlparse(u).netloc)
    IN  IF domain = "reddit.com" \/ EndsWith(domain, ".reddit.com") THEN "reddit"
        ELSE IF domain = "youtube.com" \/ EndsWith(domain, ".youtube.com")
                \/ domain = "youtu.be" THEN "youtube"
        ELSE IF domain = "news.ycombinator.com" THEN "hn"
        ELSE NoneVal

\* the id the platform's extractor gives for the URL
ExtractedId(u) ==
    IF Platform(u) = "reddit" THEN extract_reddit_id(u)
    ELSE IF Platform(u) = "youtube" THEN extract_youtube_id(u)
    ELSE extract_hn_id(u)

UrlsOfVideo(id) ==
    {s \o h \o "/watch?" \o before \o "v=" \o id \o after :
        s \in Schemes, h \in YoutubeHosts, before \in ParamsBefore, after \in ParamsAfter}
    \cup {s \o h \o "/embed/" \o id : s \in Schemes, h \in YoutubeHosts}
    \cup {s \o "youtu.be/" \o id : s \in Schemes}

\* C16: for every URL of shape youtube.com/watch?...v=<id>...,
\* youtube.com/embed/<id> or youtu.be/<id> where <id> is 11 characters of
\* [0-9A-Za-z_-], extract_youtube_id returns exactly <id>, whatever other
\* query parameters precede or follow it.
C16_YoutubeIdExact ==
    last.op = "extract_youtube_id" =>
        \A id \in VideoIds : url \in UrlsOfVideo(id) => last.ret = id

\* the Reddit URLs of the two shapes that carry the post id
UrlsOfPost(id) ==
    {s \o h \o "/r/programming/comments/" \o id \o tail :
        s \in Schemes, h \in RedditHosts, tail \in PostTails}
    \cup {s \o h \o "/comments/" \o id : s \in Schemes, h \in RedditHosts}

\* C17: for every Reddit URL (host reddit.com, www.reddit.com or a
\* subdomain) whose path is /r/<sub>/comments/<id>/..., extract_reddit_id
\* returns <id>; and for every Reddit URL whose path is /comments/<id>, it
\* also returns <id>.
C17_RedditIdExact ==
    last.op = "extract_reddit_id" =>
        \A id \in PostIds : url \in UrlsOfPost(id) => last.ret = id

\* the Hacker News item URLs that carry the item id
UrlsOfItem(id) ==
    {s \o www \o "news.ycombinator.com/item?id=" \o id \o after :
        s \in Schemes, www \in {"", "www."}, after \in {"", "&p=2"}}

\* C18: for every Hacker News URL news.ycombinator.com/item?id=<digits>,
\* extract_hn_id returns exactly <digits> as a string, and the route's
\* fragment (of a URL with a scheme, so that it has a host) is
\* "hn:<digits>".
C18_HackerNewsId ==
    \A id \in ItemIds :
        url \in UrlsOfItem(id) =>
            /\ last.op = "extract_hn_id" => last.ret = id
            /\ (last.op = "detect_url_type" /\ urlparse(url).scheme # "") =>
                    last.ret = Some(<<"llm-hacker-news", "hn:" \o id>>)

\* https://news.ycombinator.com/item?id=12345678 is routed to "hn:12345678"
C18_Witness ==
    /\ last.op = "detect_url_type"
    /\ url = "https://news.ycombinator.com/item?id=12345678"
    /\ last.ret = Some(<<"llm-hacker-news", "hn:12345678">>)

\* the first id of ids that is neither none nor empty, none when there is
\* no such id
FirstNonEmpty(ids) ==
    LET found == {i \in 1..Len(ids) : ids[i] \notin {NoneVal, ""}}
    IN  IF found = {} THEN NoneVal ELSE ids[Leftmost(found)]

\* C19: for every input string, the three id extractors and
\* detect_url_type never raise: each extractor returns the first non-empty
\* id produced by its ordered strategies and none when all strategies fail,
\* and detect_url_type returns none on a parse error.
C19_FirstNonEmptyOrNone ==
    /\ last.op = "extract_youtube_id" =>
          last.ret = FirstNonEmpty(YoutubePatterns(url) \o <<YoutubeFallback(url)>>)
    /\ last.op = "extract_reddit_id" =>
          last.ret = FirstNonEmpty(<<MatchReddit(url), RedditFallback(url)>>)
    /\ last.op = "extract_hn_id" =>
          last.ret = FirstNonEmpty(<<MatchHackerNews(url), HackerNewsFallback(url)>>)
    /\ (last.op = "detect_url_type" /\ ~Parses(url)) => last.ret = None

\* YouTube URLs that carry no video id: a channel, the subscriptions feed,
\* a playlist, and a watch URL whose only parameter is prev
UrlsWithoutVideo ==
    {"https://www.youtube.com/channel/UCabcdefghijkl",
     "https://www.youtube.com/feed/subscriptions",
     "https://www.youtube.com/playlist?list=PL1234567890",
     "https://www.youtube.com/watch?prev=abcdefghijk"}

\* C29: for a YouTube URL that carries no video id (a channel, a feed, a
\* playlist, a query parameter other than v whose name ends in v)
\* extract_youtube_id returns none and detect_url_type yields none.
C29_NoVideoNoId ==
    url \in UrlsWithoutVideo =>
        /\ last.op = "extract_youtube_id" => last.ret = NoneVal
        /\ last.op = "detect_url_type" => last.ret = None

(***************************************************************************)
(* Properties of the prompt selection (SpecPrompt).                        *)
(***************************************************************************)

\* the formats each platform has a prompt of its own for
PlatformFormats ==
       ("reddit" :> {"bullet", "paragraph", "detailed", "discussion"})
    @@ ("hackernews" :> {"bullet", "paragraph", "detailed", "technical"})
    @@ ("youtube" :> {"bullet", "paragraph", "detailed", "technical"})

GenericFormats ==
    {"bullet", "paragraph", "detailed", "key-points", "discussion", "technical"}

\* C20: get_system_prompt(platform) returns the configured override verbatim
\* whenever an override is present (a non-empty text); otherwise the
\* platform-specific prompt when the platform has an override table
\* containing the configured format; otherwise the generic prompt of the
\* format; and the generic bullet prompt when the format is unrecognised; it
\* never raises (every configuration and platform has a prompt).
C20_PromptPrecedence ==
    last.op = "get_system_prompt" =>
        IF config.system_prompt \notin {NoneVal, ""}
        THEN last.ret = config.system_prompt
        ELSE IF /\ last.platform \in DOMAIN PlatformFormats
                /\ config.format \in PlatformFormats[last.platform]
        THEN /\ last.ret = platform_prompts[last.platform][config.format]
             /\ last.ret # system_prompts[config.format]
        ELSE IF config.format \in GenericFormats
        THEN last.ret = system_prompts[config.format]
        ELSE last.ret = system_prompts["bullet"]

\* an override wins over a platform that has a prompt for the format
C20_Witness ==
    /\ last.op = "get_system_prompt"
    /\ config = SummaryConfig("bullet", "Answer in one sentence.")
    /\ last.platform = "youtube"
    /\ last.ret = "Answer in one sentence."

\* the bonus keys occurring in the name that are shorter than the longest
\* one occurring in it
ShorterMatchingKeys(model_name) ==
    LET keys == {k \in ModelBonusKeys : Contains(model_name, k)}
    IN  {k \in keys : \E j \in keys : Len(k) < Len(j)}

\* C25: when several bonus keys are substrings of the model name, only the
\* longest influences the priority: with any other weight for a shorter
\* matching key, _calculate_priority returns what it returns with the
\* configured weights.
C25_ShorterKeysIgnored ==
    (last.op = "_calculate_priority"
     /\ last.key \in ShorterMatchingKeys(last.model_name))
    => last.ret = _calculate_priority(last.provider, last.model_name, last.is_chat,
                                      last.is_experimental)

\* "gpt-4" is given the weight -20 and the priority of "gpt-4o-mini" asked
C25_Witness ==
    /\ last.op = "_calculate_priority"
    /\ last.key = "gpt-4" /\ last.weight = -20
    /\ last.model_name = "gpt-4o-mini"
    /\ last.ret = _calculate_priority(last.provider, "gpt-4o-mini", last.is_chat,
                                      last.is_experimental)

\* the line, trimmed, is not blank, does not begin with "Default:" and has
\* a ": " to split on
YieldsRecord(raw_line) ==
    /\ Strip(raw_line) # ""
    /\ ~StartsWith(Strip(raw_line), "Default:")
    /\ Contains(Strip(raw_line), ": ")

\* the name contains one of the five keywords as a whole word
ExperimentalName(name) ==
    \E kw \in {"preview", "experimental", "exp", "thinking", "test"} :
        \E i \in 1..Len(name) :
            /\ i + Len(kw) - 1 <= Len(name)
            /\ SubSeq(name, i, i + Len(kw) - 1) = kw
            /\ (i = 1 \/ CharAt(name, i - 1) \notin WordChars)
            /\ (i + Len(kw) > Len(name) \/ CharAt(name, i + Len(kw)) \notin WordChars)

\* C26: _parse_models_output returns a list for every output, with one
\* record, in input order, for each line that is not blank, does not begin
\* with "Default:" and splits on its first ": ", and none for the other
\* lines; the provider is the text before that ": "; a line without an
\* aliases clause gives an empty alias list; is_chat is true unless the
\* provider ends with "Completion"; is_experimental is true iff the
\* lower-cased name contains preview, experimental, exp, thinking or test as
\* a whole word.
C26_ParserContract ==
    last.op = "_parse_models_output" =>
        LET lines == SelectSeq(Split(Strip(last.output), "\n"), YieldsRecord)
        IN  /\ Len(last.ret) = Len(lines)
            /\ \A i \in 1..Len(lines) :
                /\ last.ret[i].provider
                     = Strip(SubSeq(Strip(lines[i]), 1, Find(Strip(lines[i]), ": ") - 1))
                /\ ~Contains(lines[i], "(aliases: ") => last.ret[i].aliases = <<>>
                /\ last.ret[i].is_chat = ~EndsWith(last.ret[i].provider, "Completion")
                /\ last.ret[i].is_experimental
                     = ExperimentalName(Lower(last.ret[i].name))

\* an output with a skipped line, a line with aliases and a line whose
\* name holds "test" and "exp" inside longer words
C26_Witness ==
    /\ last.op = "_parse_models_output"
    /\ last.output = "Default: gpt-4o\nOllama: latest-expert\n"
    /\ Len(last.ret) = 1
    /\ last.ret[1].name = "latest-expert"
    /\ ~last.ret[1].is_experimental
    /\ last.ret[1].aliases = <<>>

\* C27: discover_models never returns or caches an empty catalog: when a
\* retrieval yields no usable model the caller receives the fallback
\* catalog.
C27_NeverEmptyCatalog ==
    /\ last.op = "discover_models" => last.ret # <<>>
    /\ _cached_models # None => ValueOf(_cached_models) # <<>>

\* the names listed after "Try: " in a suggestion message
Suggested(name, msg) ==
    LET head == "Model '" \o name \o "' not found. Try: "
    IN  Split(SubSeq(msg, Len(head) + 1, Len(msg)), ", ")

\* C28: when validate_model(name) returns false, none of the suggested
\* model names equals name, also when the cache is stale and the outcome of
\* the model-listing tool changes between the discover_models calls of that
\* one validate_model call.
C28_SuggestionsExcludeName ==
    (last.op = "validate_model" /\ ~last.ret[1])
    => ~InList(last.name, Suggested(last.name, last.ret[2]))

(***************************************************************************)
(* Properties of the summary entry points (SpecSummary).                   *)
(***************************************************************************)

\* the URL of the state routes to a platform
Routes == detect_url_type(url) # None

\* the platform tag of the routed URL
RoutedPlatform ==
    LET fragment_name == ValueOf(detect_url_type(url))[1]
    IN  IF fragment_name = "llm-fragments-reddit" THEN "reddit"
        ELSE IF fragment_name = "llm-hacker-news" THEN "hackernews"
        ELSE "youtube"

\* C21: each summary entry point (summarize_url and generate_summary)
\* passes to the external tool, after --system, the prompt selected for the
\* configured format and the platform of the routed URL, and after -f the
\* fragment identifier: for https://youtu.be/dQw4w9WgXcQ with format bullet
\* and no override the command carries -f youtube:dQw4w9WgXcQ and the
\* YouTube bullet prompt.
C21_PlatformPromptPassed ==
    (last.op \in {"generate_summary", "summarize_url"} /\ Routes) =>
        /\ last.cmd # None
        /\ SubSeq(ValueOf(last.cmd), 4, 7)
             = <<"-f", ValueOf(detect_url_type(url))[2], "--system",
                 get_system_prompt(config, RoutedPlatform)>>
        /\ (url = "https://youtu.be/dQw4w9WgXcQ"
            /\ config = SummaryConfig("bullet", NoneVal))
           => SubSeq(ValueOf(last.cmd), 4, 7)
                = <<"-f", "youtube:dQw4w9WgXcQ", "--system", youtube_prompts["bullet"]>>

\* the first words of the five failure messages of generate_summary
FailureMarks ==
    [unroutable |-> "No matching fragment found. Supported sites: ",
     failed |-> "LLM command failed: ",
     timeout |-> "Request timed out after ",
     missing |-> "'llm' command not found.",
     unexpected |-> "Unexpected error: "]

\* the failure of a generate_summary call on the URL of the state whose
\* process did outcome
FailureOf(outcome) ==
    IF ~Routes THEN "unroutable"
    ELSE IF outcome.kind = "exit" THEN "failed"
    ELSE IF outcome.kind = "timeout" THEN "timeout"
    ELSE IF outcome.kind = "not found" THEN "missing"
    ELSE "unexpected"

\* C22: generate_summary maps every subprocess result to exactly one
\* outcome and lets no exception escape: exit 0 gives (true, record whose
\* content is the trimmed stdout, no error); a non-zero exit (false, no
\* record, message containing stderr); a timeout, a missing tool, another
\* exception and an unroutable URL each (false, no record, their own
\* message, the last listing all supported sites); success holds iff a
\* record is returned iff the error message is none, and the messages of
\* the failure kinds are distinguishable.
C22_OutcomeMapping ==
    last.op = "generate_summary" =>
        /\ ~last.raised
        /\ last.ret[1] <=> last.ret[2] # None
        /\ last.ret[1] <=> last.ret[3] = NoneVal
        /\ IF Routes /\ last.outcome.kind = "exit" /\ last.outcome.returncode = 0
           THEN /\ last.ret[1]
                /\ ValueOf(last.ret[2]).content = "- point one\n- point two"
           ELSE /\ ~last.ret[1]
                /\ \A kind \in DOMAIN FailureMarks :
                       StartsWith(last.ret[3], FailureMarks[kind])
                       <=> kind = FailureOf(last.outcome)
        /\ (Routes /\ last.outcome.kind = "exit" /\ last.outcome.returncode # 0)
           => Contains(last.ret[3], last.outcome.stderr)
        /\ ~Routes => \A i \in 1..Len(supported_sites) :
                          Contains(last.ret[3], supported_sites[i])

\* the tool exits with status 1 on the Reddit post
C22_Witness ==
    /\ last.op = "generate_summary"
    /\ url = "https://www.reddit.com/r/programming/comments/abc123/a_post_title/"
    /\ last.outcome.kind = "exit" /\ last.outcome.returncode = 1
    /\ last.ret = <<FALSE, None, "LLM command failed: Error: Unknown fragment loader">>

\* C23: one summarization call starts the external summarization process
\* exactly once when the URL routes to a platform, whatever the outcome,
\* and zero times when it routes to none; on timeout no partial output is
\* returned as a summary.
C23_SingleInvocation ==
    /\ last.op \in {"generate_summary", "summarize_url"}
       => last.runs = IF Routes THEN 1 ELSE 0
    /\ (last.op = "generate_summary" /\ last.outcome.kind = "timeout")
       => ~last.ret[1] /\ last.ret[2] = None
    /\ (last.op = "summarize_url" /\ last.outcome.kind = "timeout") => ~last.ret

\* the process times out with some output captured
C23_Witness ==
    /\ last.op = "generate_summary"
    /\ Routes
    /\ last.outcome.kind = "timeout" /\ last.outcome.stdout # ""
    /\ last.runs = 1
    /\ last.ret = <<FALSE, None, "Request timed out after 120 seconds">>

\* C24: process_url(url) calls the extractor once and then the summary
\* service once, both with url, whether or not either fails, and returns
\* (url_record of the extractor, summary_record, error_message), the last
\* two unchanged from generate_summary: a failed summary gives
\* (url_record, none, error) and never suppresses the url_record.
C24_ProcessUrl ==
    last.op = "process_url" =>
        /\ ~last.raised
        /\ last.calls = <<[callee |-> "og_extractor.extract", url |-> url],
                          [callee |-> "summary_service.generate_summary", url |-> url]>>
        /\ last.ret[1] = Some([url |-> url, title |-> last.page.title])
        /\ <<last.ret[2], last.ret[3]>>
             = SubSeq(generate_summary(config, url, last.outcome).ret, 2, 3)
        /\ ~generate_summary(config, url, last.outcome).ret[1]
           => last.ret[2] = None /\ last.ret[3] # NoneVal

\* the page request and the summary both fail
C24_Witness ==
    /\ last.op = "process_url"
    /\ last.page.kind = "error"
    /\ last.outcome.kind = "exit" /\ last.outcome.returncode = 1
    /\ last.ret = <<Some([url |-> url, title |-> NoneVal]), None,
                    "LLM command failed: Error: Unknown fragment loader">>

\* C30: given the same calls and the same tool output, the copy of the
\* discovery service in services.py and the one in llm_discovery.py
\* return the same results from discover_models, get_models_by_category
\* and validate_model
C30_CopiesEquivalent ==
    last.op \in {"discover_models", "get_models_by_category", "validate_model"}
        => last.ret = last.services_ret

\* every caller has returned
AllReturned == \A t \in Threads : threads[t].pc = "done"

\* the callers that refreshed the cache
Refreshers == {t \in Threads : threads[t].how = "fresh"}

\* C6: under concurrent discover_models calls that both refresh, no caller
\* is handed a partially written snapshot, and once all refreshes have
\* finished the cached model list and the cache timestamp stem from the
\* same single refresh.
C6_ConsistentAfterConcurrentRefresh ==
    /\ \A t \in Threads :
          threads[t].pc = "done" =>
              \/ threads[t].ret = Some(fallback_models)
              \/ \E o \in Listings : threads[t].ret = Some(FilteredOutput[o])
    /\ (AllReturned /\ Cardinality(Refreshers) >= 2) =>
          \E t \in Refreshers :
              /\ _cached_models = Some(threads[t].filtered_models)
              /\ snapshot_output = threads[t].output
              /\ _cache_timestamp = threads[t].current_time

====
